---- MODULE Spec2Model ----
(***************************************************************************)
(* Order-flow engine of controllers/directional_trading/                   *)
(* loading_order_flow_v1: range bars, cumulative volume delta (CVD)        *)
(* candles, per-bar volume profiles and POC confluence, driven by trade    *)
(* tasks that serialise on MarketDataManager._lock.                        *)
(*                                                                         *)
(* Decimal values are exact integers in units of 1/Scale. Trade prices are *)
(* multiples of 0.1, so halves of price differences stay whole units.      *)
(* Optional values are sequences: <<>> is None, <<x>> is x.                *)
(*                                                                         *)
(* Every trade task is a coroutine of the event loop. The model lets the   *)
(* loop switch tasks between any two pipeline steps; the event loop itself *)
(* only switches at an await, so its schedules are a subset of the model's *)
(* and every invariant of the model is an invariant of the program.        *)
(* Wall-clock fields (POC capture time, metrics last_update, durations in  *)
(* the display string) are not modelled.                                   *)
(***************************************************************************)
EXTENDS Integers, Sequences, FiniteSets, TLC

\* ------------------------------------------------------------------ bounds
MaxTrades == 3
MaxInFlight == 2
max_bars_history == 1
MaxLookback == 3
MaxAdds == 4
MaxTopN == 4
MaxUpdates == 3
MaxFairTrades == 2

\* --------------------------------------------------------------- constants
Scale == 20
SecondsPerDay == 86400
range_size == 20 * Scale
volume_tick_size == 1 * Scale
processing_timeout == 1

\* Raw fields the feed can deliver: prices 100, 101.5 and 80, the price 0.5
\* below one tick, and the malformed price 0; a BUY of 2 or a SELL of 1, or
\* an event whose type attribute has no name ("NONE"); a timestamp on
\* 1970-01-01 or, for a buy at 100 and a sell at 80, the day after.
Prices == {100 * Scale, (1015 * Scale) \div 10, 80 * Scale}
Timestamps == {10, SecondsPerDay + 10}
Events ==
    [price : Prices, amount : {2}, type : {"BUY"}, timestamp : {10}]
    \cup [price : Prices, amount : {1}, type : {"SELL"}, timestamp : {10}]
    \cup [price : {100 * Scale}, amount : {2}, type : {"BUY"}, timestamp : Timestamps]
    \cup [price : {80 * Scale}, amount : {1}, type : {"SELL"}, timestamp : Timestamps]
    \cup [price : {100 * Scale, 80 * Scale}, amount : {1}, type : {"NONE"}, timestamp : {10}]
    \cup [price : {Scale \div 2}, amount : {2}, type : {"BUY"}, timestamp : {10}]
    \cup [price : {0}, amount : {1}, type : {"BUY"}, timestamp : {10}]

\* The events of the concurrent specification: an opening buy, a sell that
\* breaks out of its bar, and an event without a type name.
ConcurrentEvents ==
    {[price |-> 100 * Scale, amount |-> 2, type |-> "BUY", timestamp |-> 10],
     [price |-> 80 * Scale, amount |-> 1, type |-> "SELL", timestamp |-> 10],
     [price |-> 80 * Scale, amount |-> 1, type |-> "NONE", timestamp |-> 10]}

\* Readings of the wall clock (datetime.now), the reading of a second engine
\* that runs at another time, and the POC prices handed to a tracker on its
\* own: 100, 100.5, 101 and 102.
Clock == {1, 2}
TwinClock == 0
PocPrices == {100 * Scale, (1005 * Scale) \div 10, 101 * Scale, 102 * Scale}

\* The trades handed to a VolumeProfile on its own: prices 99.9, 100.4, 100.7
\* and 101.2, volume 2 or 3, bought or sold.
ProfilePrices == {(999 * Scale) \div 10, (1004 * Scale) \div 10, (1007 * Scale) \div 10,
                  (1012 * Scale) \div 10}
ProfileVolumes == {2, 3}

\* Fractions of the total volume asked of get_value_area, as exact ratios:
\* the default 0.70, one half and the whole.
Percentages == {[num |-> 7, den |-> 10], [num |-> 1, den |-> 2], [num |-> 1, den |-> 1]}

Tasks == 1 .. MaxTrades
Reader == 0

None == <<>>
Some(x) == <<x>>
Max(a, b) == IF a >= b THEN a ELSE b
Min(a, b) == IF a <= b THEN a ELSE b

\* Decimal.__floordiv__: the integer part of the quotient, truncated toward
\* zero (divisors are positive here).
DecimalFloorDiv(a, b) == IF a >= 0 THEN a \div b ELSE 0 - ((0 - a) \div b)

\* deque(maxlen=n).append
\* Mutant: a full deque refuses the new entry instead of evicting the oldest.
deque_append_keeps_oldest(q, x, n) == IF Len(q) < n THEN Append(q, x) ELSE q

deque_append(q, x, n) ==
    IF Len(q) >= n THEN Append(SubSeq(q, 2, Len(q)), x) ELSE Append(q, x)

\* ---------------------------------------------------------- TradeValidator
\* A raw value handed to the validator: a finite number v, NaN, +Infinity,
\* -Infinity, or something that does not parse as a number (None, "abc").
Finite(v) == [kind |-> "finite", v |-> v]
NaN == [kind |-> "nan", v |-> 0]
Infinity == [kind |-> "inf", v |-> 0]
MinusInfinity == [kind |-> "-inf", v |-> 0]
Unparsable == [kind |-> "unparsable", v |-> 0]
RawValues == {Finite(0 - 1), Finite(0), Finite(1), NaN, Infinity, MinusInfinity, Unparsable}

\* Decimal(str(price)) raises InvalidOperation for what does not parse;
\* price_decimal <= 0 is true for -Infinity and raises InvalidOperation for
\* NaN; is_infinite() catches +Infinity. Every one of them ends as
\* InvalidTradeDataError.
validate_price(price) ==
    [raises |-> \/ price.kind \in {"unparsable", "nan", "-inf", "inf"}
                \/ price.kind = "finite" /\ price.v <= 0,
     value |-> price]

validate_volume(volume) ==
    [raises |-> \/ volume.kind \in {"unparsable", "nan", "-inf", "inf"}
                \/ volume.kind = "finite" /\ volume.v < 0,
     value |-> volume]

\* float(timestamp) raises TypeError or ValueError for what does not parse;
\* timestamp_float < 0 is true for negative numbers and -Infinity and false
\* for NaN and +Infinity, which are returned.
validate_timestamp(timestamp) ==
    [raises |-> \/ timestamp.kind \in {"unparsable", "-inf"}
                \/ timestamp.kind = "finite" /\ timestamp.v < 0,
     value |-> timestamp]

validate_trade(price, volume, timestamp) ==
    [raises |-> validate_price(price).raises \/ validate_volume(volume).raises
                \/ validate_timestamp(timestamp).raises,
     price |-> validate_price(price).value,
     volume |-> validate_volume(volume).value,
     timestamp |-> validate_timestamp(timestamp).value]

\* ----------------------------------------------------------- VolumeProfile
\* A profile is its two dicts, kept as one sequence of buckets in insertion
\* order (volume_by_price and delta_by_price always share their keys).
\* Mutant: the price is rounded to the nearest bucket.
normalize_price_nearest(price) ==
    DecimalFloorDiv(2 * price + volume_tick_size, 2 * volume_tick_size) * volume_tick_size

normalize_price(price) == DecimalFloorDiv(price, volume_tick_size) * volume_tick_size

BucketIndex(profile, bucket) ==
    IF \E i \in 1 .. Len(profile) : profile[i].price = bucket
    THEN CHOOSE i \in 1 .. Len(profile) : profile[i].price = bucket
    ELSE 0

VolumeProfile_update(profile, price, volume, volume_delta) ==
    LET b == normalize_price(price)
        i == BucketIndex(profile, b)
    IN  IF i = 0
        THEN Append(profile, [price |-> b, volume |-> volume, delta |-> volume_delta])
        ELSE [profile EXCEPT ![i] = [price |-> b, volume |-> @.volume + volume,
                                     delta |-> @.delta + volume_delta]]

\* max(items, key=volume): the first bucket of maximal volume
poc(profile) ==
    IF profile = <<>> THEN None
    ELSE LET i == CHOOSE i \in 1 .. Len(profile) :
                    /\ \A j \in 1 .. Len(profile) : profile[j].volume <= profile[i].volume
                    /\ \A j \in 1 .. i - 1 : profile[j].volume < profile[i].volume
         IN  Some(profile[i].price)

poc_volume(profile) ==
    IF profile = <<>> THEN None
    ELSE Some(CHOOSE v \in {profile[i].volume : i \in 1 .. Len(profile)} :
                \A j \in 1 .. Len(profile) : profile[j].volume <= v)

\* ---------------------------------------------------------------- RangeBar
RangeBar_post_init(bar) ==
    /\ bar.high >= bar.low
    /\ bar.low <= bar.open /\ bar.open <= bar.high
    /\ bar.low <= bar.close /\ bar.close <= bar.high

CVDCandle_post_init(candle) == candle.high >= candle.low

\* --------------------------------------------------------- RangeBarBuilder
\* Mutant: the range has to be exceeded, not just reached.
should_create_new_bar_strict(current_bar, price) ==
    IF current_bar = None THEN TRUE
    ELSE Max(current_bar[1].high, price) - Min(current_bar[1].low, price) > range_size

should_create_new_bar(current_bar, price) ==
    IF current_bar = None THEN TRUE
    ELSE LET potential_high == Max(current_bar[1].high, price)
             potential_low == Min(current_bar[1].low, price)
         IN  potential_high - potential_low >= range_size

\* The manager attaches a fresh VolumeProfile right after create_bar.
create_bar(price, volume, timestamp) ==
    [open |-> price, high |-> price, low |-> price, close |-> price,
     volume |-> volume, timestamp_start |-> timestamp, timestamp_end |-> None,
     trade_count |-> 1, volume_profile |-> <<>>]

\* Mutant: the low is not lowered.
update_bar_keeps_low(bar, price, volume) ==
    [bar EXCEPT !.high = Max(bar.high, price),
                !.close = price,
                !.volume = bar.volume + volume,
                !.trade_count = bar.trade_count + 1]

update_bar(bar, price, volume) ==
    [bar EXCEPT !.high = Max(bar.high, price),
                !.low = Min(bar.low, price),
                !.close = price,
                !.volume = bar.volume + volume,
                !.trade_count = bar.trade_count + 1]

\* --------------------------------------------------------- RangeBarManager
\* Mutant: the bounds reach a whole range to either side of the price.
set_range_bounds_whole_range(bm, price) ==
    [bm EXCEPT !.current_range_low = Some(price - range_size),
               !.current_range_high = Some(price + range_size)]

set_range_bounds(bm, price) ==
    [bm EXCEPT !.current_range_low = Some(price - range_size \div 2),
               !.current_range_high = Some(price + range_size \div 2)]

\* Mutant: the bounds stay where the bar's first trade put them.
update_range_bounds_stale(bm) == bm

update_range_bounds(bm) ==
    IF bm.current_bar = None THEN bm
    ELSE LET bar == bm.current_bar[1]
             remaining_range == range_size - (bar.high - bar.low)
         IN  IF remaining_range > 0
             THEN [bm EXCEPT !.current_range_low = Some(bar.low - remaining_range \div 2),
                             !.current_range_high = Some(bar.high + remaining_range \div 2)]
             ELSE [bm EXCEPT !.current_range_low = Some(bar.low),
                             !.current_range_high = Some(bar.high)]

create_new_bar(bm, price, volume, timestamp) ==
    [set_range_bounds(bm, price) EXCEPT !.current_bar = Some(create_bar(price, volume, timestamp))]

initialize_first_bar(bm, price, volume, timestamp) ==
    [create_new_bar(bm, price, volume, timestamp) EXCEPT !.first_trade_processed = TRUE]

complete_current_bar(bm, timestamp) ==
    IF bm.current_bar = None THEN bm
    ELSE LET done == [bm.current_bar[1] EXCEPT !.timestamp_end = Some(timestamp)]
         IN  [bm EXCEPT !.current_bar = Some(done),
                        !.completed_bars = deque_append(bm.completed_bars, done, max_bars_history)]

\* Mutant: a breakout that spans two or more ranges also files a bar for the
\* skipped range.
RangeBarManager_process_trade_splitting(bm, price, volume, timestamp) ==
    IF ~bm.first_trade_processed
    THEN [bm |-> initialize_first_bar(bm, price, volume, timestamp),
          is_new_bar |-> TRUE, completed_bar |-> None]
    ELSE IF bm.current_bar = None
    THEN [bm |-> create_new_bar(bm, price, volume, timestamp),
          is_new_bar |-> TRUE, completed_bar |-> None]
    ELSE IF should_create_new_bar(bm.current_bar, price)
    THEN LET closed == complete_current_bar(bm, timestamp)
             gap == Max(bm.current_bar[1].high, price) - Min(bm.current_bar[1].low, price)
             filled == IF gap >= 2 * range_size
                       THEN [closed EXCEPT !.completed_bars =
                                deque_append(@, create_bar(bm.current_bar[1].close, 0, timestamp),
                                             max_bars_history)]
                       ELSE closed
         IN  [bm |-> create_new_bar(filled, price, volume, timestamp),
              is_new_bar |-> TRUE, completed_bar |-> closed.current_bar]
    ELSE [bm |-> update_range_bounds(
                    [bm EXCEPT !.current_bar = Some(update_bar(bm.current_bar[1], price, volume))]),
          is_new_bar |-> FALSE, completed_bar |-> None]

\* Returns the manager after the call with the tuple the method returns.
RangeBarManager_process_trade(bm, price, volume, timestamp) ==
    IF ~bm.first_trade_processed
    THEN [bm |-> initialize_first_bar(bm, price, volume, timestamp),
          is_new_bar |-> TRUE, completed_bar |-> None]
    ELSE IF bm.current_bar = None
    THEN [bm |-> create_new_bar(bm, price, volume, timestamp),
          is_new_bar |-> TRUE, completed_bar |-> None]
    ELSE IF should_create_new_bar(bm.current_bar, price)
    THEN LET closed == complete_current_bar(bm, timestamp)
         IN  [bm |-> create_new_bar(closed, price, volume, timestamp),
              is_new_bar |-> TRUE, completed_bar |-> closed.current_bar]
    ELSE [bm |-> update_range_bounds(
                    [bm EXCEPT !.current_bar = Some(update_bar(bm.current_bar[1], price, volume))]),
          is_new_bar |-> FALSE, completed_bar |-> None]

\* ----------------------------------------------------------- CVDCalculator
\* raises when the event's type has no name (AttributeError) or the amount
\* is negative; otherwise +amount for a BUY and -amount for anything else.
\* Mutant: the side is ignored.
calculate_volume_delta_unsigned(event) ==
    [raises |-> event.amount < 0 \/ event.type = "NONE", value |-> event.amount]

calculate_volume_delta(event) ==
    [raises |-> event.amount < 0 \/ event.type = "NONE",
     value |-> IF event.type = "BUY" THEN event.amount ELSE 0 - event.amount]

\* -------------------------------------------------------------- CVDManager
DateOf(timestamp) == timestamp \div SecondsPerDay

\* Mutant: only the running total is cleared.
reset_keeps_bar_cvd(cm) == [cm EXCEPT !.cumulative_cvd = 0]

\* Mutant: the daily reset also rewrites the candles kept in history.
reset_rebases_candles(cm) ==
    [cm EXCEPT !.cumulative_cvd = 0,
               !.current_bar_cvd = 0,
               !.completed_cvd_candles =
                   [i \in DOMAIN @ |-> [@[i] EXCEPT !.close = 0]]]

reset(cm) == [cm EXCEPT !.cumulative_cvd = 0, !.current_bar_cvd = 0]

\* Mutant: any change of date resets, also a step back.
check_and_reset_on_other_date(cm, timestamp) ==
    IF DateOf(timestamp) # DateOf(cm.last_reset_timestamp)
    THEN [cm |-> [reset(cm) EXCEPT !.last_reset_timestamp = timestamp], did_reset |-> TRUE]
    ELSE [cm |-> cm, did_reset |-> FALSE]

check_and_reset(cm, timestamp) ==
    IF DateOf(timestamp) > DateOf(cm.last_reset_timestamp)
    THEN [cm |-> [reset(cm) EXCEPT !.last_reset_timestamp = timestamp], did_reset |-> TRUE]
    ELSE [cm |-> cm, did_reset |-> FALSE]

\* Mutant: a new candle opens at the running CVD instead of the previous close.
update_cvd_candle_opens_at_cvd(cm) ==
    IF cm.current_cvd_candle = None
    THEN [cm EXCEPT !.current_cvd_candle =
                Some([open |-> cm.cumulative_cvd, high |-> cm.cumulative_cvd,
                      low |-> cm.cumulative_cvd, close |-> cm.cumulative_cvd])]
    ELSE [cm EXCEPT !.current_cvd_candle =
                Some([open |-> @[1].open,
                      high |-> Max(@[1].high, cm.cumulative_cvd),
                      low |-> Min(@[1].low, cm.cumulative_cvd),
                      close |-> cm.cumulative_cvd])]

update_cvd_candle(cm) ==
    IF cm.current_cvd_candle = None
    THEN LET cvd_open ==
                 IF cm.completed_cvd_candles # <<>>
                 THEN cm.completed_cvd_candles[Len(cm.completed_cvd_candles)].close
                 ELSE IF cm.cumulative_cvd = cm.current_bar_cvd THEN 0
                 ELSE cm.cumulative_cvd - cm.current_bar_cvd
         IN  [cm EXCEPT !.current_cvd_candle =
                    Some([open |-> cvd_open, high |-> cm.cumulative_cvd,
                          low |-> cm.cumulative_cvd, close |-> cm.cumulative_cvd])]
    ELSE [cm EXCEPT !.current_cvd_candle =
                Some([open |-> @[1].open,
                      high |-> Max(@[1].high, cm.cumulative_cvd),
                      low |-> Min(@[1].low, cm.cumulative_cvd),
                      close |-> cm.cumulative_cvd])]

CVDManager_process_trade(cm, volume_delta, is_new_bar) ==
    update_cvd_candle(
        [cm EXCEPT !.cumulative_cvd = @ + volume_delta,
                   !.current_bar_cvd = IF is_new_bar THEN volume_delta ELSE @ + volume_delta])

complete_candle(cm) ==
    IF cm.current_cvd_candle # None
    THEN [cm EXCEPT !.completed_cvd_candles =
                        deque_append(@, cm.current_cvd_candle[1], max_bars_history),
                    !.current_cvd_candle = None]
    ELSE cm

\* -------------------------------------------------------------- POCTracker
RECURSIVE CountLevels(_, _)
CountLevels(history, levels) ==
    IF history = <<>> THEN levels
    ELSE LET p == Head(history).price
             i == IF \E k \in 1 .. Len(levels) : levels[k].price = p
                  THEN CHOOSE k \in 1 .. Len(levels) : levels[k].price = p
                  ELSE 0
         IN  CountLevels(Tail(history),
                         IF i = 0 THEN Append(levels, [price |-> p, count |-> 1])
                         ELSE [levels EXCEPT ![i].count = @ + 1])

\* Mutant: the map is keyed by the price scaled with the capture time.
update_confluence_by_time(pt) ==
    [pt EXCEPT !.confluence_levels =
        CountLevels([i \in 1 .. Len(pt.poc_history) |->
                        [price |-> pt.poc_history[i].price * pt.poc_history[i].timestamp]],
                    <<>>)]

\* Mutant: the map is not cleared before the window is counted.
update_confluence_no_clear(pt) ==
    [pt EXCEPT !.confluence_levels = CountLevels(pt.poc_history, pt.confluence_levels)]

update_confluence(pt) == [pt EXCEPT !.confluence_levels = CountLevels(pt.poc_history, <<>>)]

\* Mutant: the tracker rounds up to the bucket above the price.
POCTracker_normalize_price_above(price) ==
    (DecimalFloorDiv(price, volume_tick_size) + 1) * volume_tick_size

\* POCTracker._normalize_price, with the tracker's own tick size (the same
\* volume_tick_size the manager hands to both).
POCTracker_normalize_price(price) ==
    DecimalFloorDiv(price, volume_tick_size) * volume_tick_size

add_poc(pt, poc_price, volume, now) ==
    update_confluence(
        [pt EXCEPT !.poc_history =
            deque_append(@, [price |-> POCTracker_normalize_price(poc_price),
                             volume |-> volume, timestamp |-> now],
                         pt.lookback_bars)])

\* Mutant: of the levels with the highest count the last one comes first.
RECURSIVE SortedLevels_last_first(_)
SortedLevels_last_first(levels) ==
    IF levels = <<>> THEN <<>>
    ELSE LET i == CHOOSE i \in 1 .. Len(levels) :
                    /\ \A j \in 1 .. Len(levels) : levels[j].count <= levels[i].count
                    /\ \A j \in i + 1 .. Len(levels) : levels[j].count < levels[i].count
         IN  <<levels[i]>>
             \o SortedLevels_last_first(SubSeq(levels, 1, i - 1)
                                        \o SubSeq(levels, i + 1, Len(levels)))

\* sorted(items, key=count, reverse=True)[:top_n]; the sort is stable
RECURSIVE SortedLevels(_)
SortedLevels(levels) ==
    IF levels = <<>> THEN <<>>
    ELSE LET i == CHOOSE i \in 1 .. Len(levels) :
                    /\ \A j \in 1 .. Len(levels) : levels[j].count <= levels[i].count
                    /\ \A j \in 1 .. i - 1 : levels[j].count < levels[i].count
         IN  <<levels[i]>> \o SortedLevels(SubSeq(levels, 1, i - 1) \o SubSeq(levels, i + 1, Len(levels)))

get_strongest_levels(pt, top_n) ==
    SubSeq(SortedLevels(pt.confluence_levels), 1, Min(top_n, Len(pt.confluence_levels)))

\* sorted(volume_by_price.items(), key=volume, reverse=True); the sort is
\* stable, so buckets of equal volume stay in insertion order.
RECURSIVE sorted_prices(_)
sorted_prices(profile) ==
    IF profile = <<>> THEN <<>>
    ELSE LET i == CHOOSE i \in 1 .. Len(profile) :
                    /\ \A j \in 1 .. Len(profile) : profile[j].volume <= profile[i].volume
                    /\ \A j \in 1 .. i - 1 : profile[j].volume < profile[i].volume
         IN  <<profile[i]>>
             \o sorted_prices(SubSeq(profile, 1, i - 1) \o SubSeq(profile, i + 1, Len(profile)))

\* sum(volume_by_price.values())
RECURSIVE total_volume(_)
total_volume(profile) ==
    IF profile = <<>> THEN 0 ELSE Head(profile).volume + total_volume(Tail(profile))

\* Mutant: the loop goes on until the target is exceeded.
RECURSIVE value_area_prices_exceeding(_, _, _, _, _)
value_area_prices_exceeding(sorted, accumulated_volume, selected, total, percentage) ==
    IF sorted = <<>> THEN selected
    ELSE LET a == accumulated_volume + Head(sorted).volume
             sel == selected \cup {Head(sorted).price}
         IN  IF a * percentage.den > total * percentage.num THEN sel
             ELSE value_area_prices_exceeding(Tail(sorted), a, sel, total, percentage)

\* The loop of get_value_area: it takes buckets in sorted order and stops
\* after the one that brings the accumulated volume to the target
\* total * percentage (compared here with the denominator cleared).
RECURSIVE value_area_prices(_, _, _, _, _)
value_area_prices(sorted, accumulated_volume, selected, total, percentage) ==
    IF sorted = <<>> THEN selected
    ELSE LET a == accumulated_volume + Head(sorted).volume
             sel == selected \cup {Head(sorted).price}
         IN  IF a * percentage.den >= total * percentage.num THEN sel
             ELSE value_area_prices(Tail(sorted), a, sel, total, percentage)

get_value_area(profile, percentage) ==
    IF profile = <<>> THEN [low |-> None, high |-> None]
    ELSE LET prices == value_area_prices(sorted_prices(profile), 0, {},
                                         total_volume(profile), percentage)
         IN  [low |-> Some(CHOOSE p \in prices : \A q \in prices : p <= q),
              high |-> Some(CHOOSE p \in prices : \A q \in prices : q <= p)]

\* ------------------------------------------------------- MarketDataManager
\* _handle_bar_completion_with_cvd with _update_completed_bar_info
handle_bar_completion_with_cvd(pt, met, m, bar, cvd_candle, now) ==
    LET p == poc(bar.volume_profile)
        pv == poc_volume(bar.volume_profile)
    IN  [pt |-> IF p # None /\ p[1] # 0 THEN add_poc(pt, p[1], pv[1], now) ELSE pt,
         appended |-> IF p # None /\ p[1] # 0
                      THEN Some([price |-> POCTracker_normalize_price(p[1]), volume |-> pv[1]])
                      ELSE None,
         m |-> IF cvd_candle # None
               THEN [m EXCEPT !.last_completed_bar_info =
                        Some([open |-> bar.open, close |-> bar.close,
                              cvd_open |-> cvd_candle[1].open,
                              cvd_close |-> cvd_candle[1].close,
                              volume |-> bar.volume, trade_count |-> bar.trade_count,
                              poc |-> IF p # None /\ p[1] # 0 THEN p ELSE None])]
               ELSE m,
         met |-> [met EXCEPT !.bars_completed = @ + 1]]

\* MetricsCollector.record_error
record_error(met) == [met EXCEPT !.errors_count = @ + 1]

\* Mutant: the exception raised by the timeout handler is caught and counted
\* again by the handler for every other exception.
except_TimeoutError_recounted(met) == record_error(record_error(met))

\* except asyncio.TimeoutError: record_error(), raise Exception(...). The
\* exception raised here leaves the try statement; the except clause below
\* it does not see it.
except_TimeoutError(met) == record_error(met)

\* except Exception: record_error(), raise
except_Exception(met) == record_error(met)

Failed(e, kind) == [e |-> [e EXCEPT !.met = except_Exception(@)], fate |-> kind]

\* The dictionary process_trade returns, from its locals and the engine at
\* the return statement.
process_trade_result(l, cm, m) ==
    [is_new_bar |-> l.is_new_bar,
     completed_bar |-> l.completed_bar,
     volume_delta |-> l.volume_delta,
     current_cvd |-> cm.cumulative_cvd,
     completed_bar_info |-> IF l.completed_bar # None THEN m.last_completed_bar_info
                            ELSE None]

\* MarketDataManager.process_trade as one function of the engine, the event
\* and the clock: the engine after the call and how the call ended.

process_trade(e, ev, now) ==
    LET w == validate_trade(Finite(ev.price), Finite(ev.amount), Finite(ev.timestamp))
        v == [raises |-> w.raises, price |-> w.price.v, volume |-> w.volume.v,
              timestamp |-> w.timestamp.v]
        r == check_and_reset(e.cm, v.timestamp)
        e2 == [e EXCEPT !.cm = r.cm,
                        !.met = IF r.did_reset THEN [@ EXCEPT !.cvd_reset = @ + 1] ELSE @]
        b == RangeBarManager_process_trade(e.bm, v.price, v.volume, v.timestamp)
        completed_cvd == IF b.completed_bar # None THEN e2.cm.current_cvd_candle ELSE None
        e4 == [e2 EXCEPT !.bm = b.bm,
                         !.cm = IF b.completed_bar # None THEN complete_candle(@) ELSE @]
        d == calculate_volume_delta(ev)
        e5 == [e4 EXCEPT !.cm = CVDManager_process_trade(@, d.value, b.is_new_bar)]
        e6 == [e5 EXCEPT !.bm.current_bar[1].volume_profile =
                            VolumeProfile_update(@, v.price, v.volume, d.value)]
        h == handle_bar_completion_with_cvd(e6.pt, e6.met, e6.m, b.completed_bar[1],
                                            completed_cvd, now)
        e7 == IF b.completed_bar # None
              THEN [e6 EXCEPT !.pt = h.pt, !.met = h.met, !.m = h.m]
              ELSE e6
        e8 == [e7 EXCEPT !.m.total_volume_processed = @ + v.volume,
                         !.m.total_trades_processed = @ + 1,
                         !.met.trades_processed = @ + 1]
    IN  IF v.raises THEN Failed(e, "invalid")
        ELSE IF b.is_new_bar /\ ~RangeBar_post_init(b.bm.current_bar[1])
        THEN Failed(e2, "error")
        ELSE IF d.raises THEN Failed(e4, "invalid")
        ELSE IF ~CVDCandle_post_init(e5.cm.current_cvd_candle[1]) THEN Failed(e4, "error")
        ELSE [e |-> e8, fate |-> "ok"]

\* ------------------------------------------------------------------- state
VARIABLES
    bar_manager,     \* RangeBarManager: current bar, bounds, completed bars
    cvd_manager,     \* CVDManager: running and per-bar CVD, candles, last reset
    poc_tracker,     \* POCTracker: POC window and confluence map
    metrics,         \* MetricsCollector.metrics
    mdm,             \* MarketDataManager: lifetime totals, last completed bar info
    locked,          \* MarketDataManager._lock is held
    waiters,         \* tasks queued on the lock, oldest first
    pc,              \* position of every trade task
    trade,           \* the event a task carries
    loc,             \* a task's local variables inside process_trade
    fate,            \* how a task's process_trade call ended
    rpc,             \* position of the update_processed_data caller
    processed_data,  \* controller.processed_data
    result,          \* what the latest process_trade call returned
    config,          \* the controller's configuration object
    validated,       \* a validate_trade call: its arguments and its outcome
    value_area,      \* what the latest get_value_area call returned
    actions,         \* what the latest determine_executor_actions call returned
    status,          \* what the synchronous accessors returned last
    volume_profile,  \* a VolumeProfile on its own
    hist             \* history variables used only to state properties

vars == <<bar_manager, cvd_manager, poc_tracker, metrics, mdm, locked, waiters,
          pc, trade, loc, fate, rpc, processed_data, status, volume_profile, hist,
          result, config, validated, value_area, actions>>

\* The configuration the engine is constructed from.
LoadingOrderFlowV1Config ==
    [range_size |-> range_size, volume_tick_size |-> volume_tick_size,
     max_bars_history |-> max_bars_history, processing_timeout |-> processing_timeout]

\* The fields declared "is_updatable": True, and values the collaborator
\* may set them to.
Updatable ==
    [range_size : {range_size, 2 * range_size}]
    \cup [max_bars_history : {max_bars_history, max_bars_history + 1}]
    \cup [processing_timeout : {processing_timeout, 2 * processing_timeout}]

NoEvent == [price |-> 0, amount |-> 0, type |-> "NONE", timestamp |-> 0]
NoLocals == [price |-> 0, volume |-> 0, timestamp |-> 0, is_new_bar |-> FALSE,
             completed_bar |-> None, completed_cvd |-> None, volume_delta |-> 0]
NoEntry == None

CriticalSection == {"validate", "reset", "bar", "candle", "delta", "profile",
                    "completion", "counters"}

\* The part of the engine a failed call must leave alone (everything except
\* the error counter).
Data(bm, cm, pt, met, m) == <<bm, cm, pt, [met EXCEPT !.errors_count = 0], m>>

\* The components as their constructors leave them.
RangeBarManager_init ==
    [current_bar |-> None, current_range_low |-> None, current_range_high |-> None,
     completed_bars |-> <<>>, first_trade_processed |-> FALSE]

CVDManager_init ==
    [cumulative_cvd |-> 0, current_bar_cvd |-> 0, current_cvd_candle |-> None,
     completed_cvd_candles |-> <<>>, last_reset_timestamp |-> 0]

POCTracker_init ==
    [lookback_bars |-> max_bars_history, poc_history |-> <<>>, confluence_levels |-> <<>>]

MetricsCollector_init ==
    [trades_processed |-> 0, bars_completed |-> 0, errors_count |-> 0, cvd_reset |-> 0]

MarketDataManager_init ==
    [total_volume_processed |-> 0, total_trades_processed |-> 0,
     last_completed_bar_info |-> None]

\* The engine (the manager with its components) as one value.
Engine(bm, cm, pt, met, m) == [bm |-> bm, cm |-> cm, pt |-> pt, met |-> met, m |-> m]

Engine_init ==
    Engine(RangeBarManager_init, CVDManager_init, POCTracker_init, MetricsCollector_init,
           MarketDataManager_init)

\* No task exists, nothing has been read.
Idle ==
    /\ locked = FALSE
    /\ waiters = <<>>
    /\ pc = [t \in Tasks |-> "none"]
    /\ trade = [t \in Tasks |-> NoEvent]
    /\ loc = [t \in Tasks |-> NoLocals]
    /\ fate = [t \in Tasks |-> "none"]
    /\ rpc = "idle"
    /\ processed_data = None
    /\ status = None
    /\ result = None
    /\ config = LoadingOrderFlowV1Config
    /\ validated = None
    /\ value_area = None
    /\ actions = None
    /\ hist = [touched |-> [t \in Tasks |-> FALSE], sum_signed |-> 0, sum_volume |-> 0, n_ok |-> 0,
               snapshot_failed |-> FALSE,
               reset_after_first |-> FALSE, bars |-> <<>>, candles |-> <<>>, pocs |-> <<>>,
               updates |-> <<>>, twin |-> Engine_init, clean |-> Engine_init,
               seen |-> None, seen_done |-> <<>>, open_signed |-> 0,
               entry |-> NoEntry]

Init ==
    /\ bar_manager = RangeBarManager_init
    /\ cvd_manager = CVDManager_init
    /\ poc_tracker = POCTracker_init
    /\ metrics = MetricsCollector_init
    /\ volume_profile = <<>>
    /\ Idle
    /\ mdm = MarketDataManager_init

\* ------------------------------------------------------- lock and scheduling
\* asyncio.Lock.acquire without waiting: the lock is free and nobody queues.
\* Mutant: the lock is taken without looking at it.
CanAcquire_unchecked == TRUE

\* Mutant: a free lock is taken although older tasks queue for it.
CanAcquire_barging == ~locked

CanAcquire == ~locked /\ waiters = <<>>

\* The only await of process_trade is the wait for the lock, so that is the
\* only place where the timeout can cancel the task.
\* Mutant: the critical section can be cancelled as well.
CanTimeout_anywhere(t) == pc[t] \in {"waiting"} \cup CriticalSection

CanTimeout(t) == pc[t] = "waiting"

Without(q, x) == SelectSeq(q, LAMBDA y : y # x)

\* History: the engine as the call found it when it took the lock.
EntryOf(bm, cm) ==
    Some([bm |-> bm, cm |-> cm, bars |-> hist.bars, candles |-> hist.candles,
          did_reset |-> FALSE])

\* _process_public_trade: the feed callback schedules a task for the event.
\* At most `limit` tasks are in flight at a time.
Deliver(ev, limit) ==
    LET t == Cardinality({u \in Tasks : pc[u] # "none"}) + 1
    IN  /\ t \in Tasks
        /\ Cardinality({u \in Tasks : pc[u] \notin {"none", "done"}}) < limit
        /\ pc' = [pc EXCEPT ![t] = "created"]
        /\ trade' = [trade EXCEPT ![t] = ev]
        /\ UNCHANGED <<result, config, validated, value_area, actions,
                       bar_manager, cvd_manager, poc_tracker, metrics, mdm, locked,
                       waiters, loc, fate, rpc, processed_data, status, volume_profile, hist>>

\* The task starts (tasks start in creation order): it enters the timeout
\* scope and acquires the lock or queues for it.
Start(t) ==
    /\ pc[t] = "created"
    /\ \A u \in Tasks : u < t => pc[u] # "created"
    /\ IF CanAcquire
       THEN /\ locked' = TRUE
            /\ pc' = [pc EXCEPT ![t] = "validate"]
            /\ hist' = [hist EXCEPT !.entry = EntryOf(bar_manager, cvd_manager)]
            /\ UNCHANGED waiters
       ELSE /\ waiters' = Append(waiters, t)
            /\ pc' = [pc EXCEPT ![t] = "waiting"]
            /\ UNCHANGED <<locked, hist>>
    /\ UNCHANGED <<result, config, validated, value_area, actions,
                   bar_manager, cvd_manager, poc_tracker, metrics, mdm, trade, loc,
                   fate, rpc, processed_data, status, volume_profile>>

\* The lock was released and this task is the oldest waiter.
WakeUp(t) ==
    /\ pc[t] = "waiting"
    /\ ~locked
    /\ waiters # <<>> /\ Head(waiters) = t
    /\ locked' = TRUE
    /\ waiters' = Tail(waiters)
    /\ pc' = [pc EXCEPT ![t] = "validate"]
    /\ hist' = [hist EXCEPT !.entry = EntryOf(bar_manager, cvd_manager)]
    /\ UNCHANGED <<result, config, validated, value_area, actions,
                   bar_manager, cvd_manager, poc_tracker, metrics, mdm, trade, loc,
                   fate, rpc, processed_data, status, volume_profile>>

\* asyncio.timeout expires: the task is cancelled where it waits, leaves the
\* lock scope, counts an error and raises; the controller logs and drops it.
Timeout(t) ==
    /\ CanTimeout(t)
    /\ waiters' = Without(waiters, t)
    /\ locked' = IF pc[t] \in CriticalSection THEN FALSE ELSE locked
    /\ metrics' = except_TimeoutError(metrics)
    /\ pc' = [pc EXCEPT ![t] = "done"]
    /\ fate' = [fate EXCEPT ![t] = "timeout"]
    /\ trade' = [trade EXCEPT ![t] = NoEvent]
    /\ loc' = [loc EXCEPT ![t] = NoLocals]
    /\ hist' = IF pc[t] \in CriticalSection THEN [hist EXCEPT !.entry = NoEntry] ELSE hist
    /\ UNCHANGED <<result, config, validated, value_area, actions,
                   bar_manager, cvd_manager, poc_tracker, mdm, rpc, processed_data, status, volume_profile>>

\* ------------------------------------------------------ the pipeline steps
\* Order of the statements inside the lock; the two steps that exist only
\* for a completed bar are skipped otherwise.
\* Mutant: the delta is folded before the completed bar's candle is committed.
PipelineNext_delta_first(step, completed_bar) ==
    CASE step = "validate" -> "reset"
      [] step = "reset" -> "bar"
      [] step = "bar" -> "delta"
      [] step = "delta" -> IF completed_bar # None THEN "candle" ELSE "profile"
      [] step = "candle" -> "profile"
      [] step = "profile" -> IF completed_bar # None THEN "completion" ELSE "counters"
      [] step = "completion" -> "counters"
      [] OTHER -> "done"

PipelineNext(step, completed_bar) ==
    CASE step = "validate" -> "reset"
      [] step = "reset" -> "bar"
      [] step = "bar" -> IF completed_bar # None THEN "candle" ELSE "delta"
      [] step = "candle" -> "delta"
      [] step = "delta" -> "profile"
      [] step = "profile" -> IF completed_bar # None THEN "completion" ELSE "counters"
      [] step = "completion" -> "counters"
      [] OTHER -> "done"

\* One statement of the critical section has run for task t.
Advance(t, bm, cm, pt, met, m, l, h) ==
    /\ bar_manager' = bm
    /\ cvd_manager' = cm
    /\ poc_tracker' = pt
    /\ metrics' = met
    /\ mdm' = m
    /\ loc' = [loc EXCEPT ![t] = l]
    /\ pc' = [pc EXCEPT ![t] = PipelineNext(pc[t], l.completed_bar)]
    /\ hist' = [h EXCEPT !.touched[t] =
                    @ \/ Data(bm, cm, pt, met, m)
                         # Data(bar_manager, cvd_manager, poc_tracker, metrics, mdm)]
    /\ UNCHANGED <<result, config, validated, value_area, actions,
                   locked, waiters, trade, fate, rpc, processed_data, status, volume_profile>>

\* History of the cumulative CVD as it stands when a call on a trade of the
\* open bar ends: the highest, the lowest and the latest value; the trade
\* that opened the bar starts the record anew.
Observe(s, v, fresh) ==
    IF fresh \/ s = None THEN Some([hi |-> v, lo |-> v, last |-> v])
    ELSE Some([hi |-> IF v > s[1].hi THEN v ELSE s[1].hi,
               lo |-> IF v < s[1].lo THEN v ELSE s[1].lo,
               last |-> v])

\* Mutant: the exception leaves the critical section with the lock held.
Raise_holding_lock(t, kind) ==
    /\ metrics' = except_Exception(metrics)
    /\ pc' = [pc EXCEPT ![t] = "done"]
    /\ fate' = [fate EXCEPT ![t] = kind]
    /\ trade' = [trade EXCEPT ![t] = NoEvent]
    /\ loc' = [loc EXCEPT ![t] = NoLocals]
    /\ hist' = [hist EXCEPT !.entry = NoEntry]
    /\ UNCHANGED <<result, config, validated, value_area, actions, locked,
                   bar_manager, cvd_manager, poc_tracker, mdm, waiters, rpc, processed_data, status, volume_profile>>

\* An exception leaves the critical section: the lock is released, the error
\* is counted and the exception goes to the controller, which logs it.
Raise(t, kind) ==
    /\ locked' = FALSE
    /\ metrics' = except_Exception(metrics)
    /\ pc' = [pc EXCEPT ![t] = "done"]
    /\ fate' = [fate EXCEPT ![t] = kind]
    /\ trade' = [trade EXCEPT ![t] = NoEvent]
    /\ loc' = [loc EXCEPT ![t] = NoLocals]
    /\ hist' = [hist EXCEPT !.entry = NoEntry,
                            !.twin = process_trade(@, trade[t], TwinClock).e,
                            !.seen = IF pc[t] \in {"candle", "delta", "profile", "completion",
                                                   "counters"}
                                     THEN Observe(@, cvd_manager.cumulative_cvd,
                                                  loc[t].is_new_bar)
                                     ELSE @,
                            !.open_signed = IF pc[t] \in {"candle", "delta", "profile",
                                                          "completion", "counters"}
                                               /\ loc[t].is_new_bar
                                            THEN 0 ELSE @]
    /\ UNCHANGED <<result, config, validated, value_area, actions,
                   bar_manager, cvd_manager, poc_tracker, mdm, waiters, rpc, processed_data, status, volume_profile>>

\* (1) validator.validate_trade(price, volume, timestamp)
Validate(t) ==
    /\ pc[t] = "validate"
    /\ LET w == validate_trade(Finite(trade[t].price), Finite(trade[t].amount),
                                Finite(trade[t].timestamp))
           v == [raises |-> w.raises, price |-> w.price.v, volume |-> w.volume.v,
                 timestamp |-> w.timestamp.v]
       IN  IF v.raises THEN Raise(t, "invalid")
           ELSE Advance(t, bar_manager, cvd_manager, poc_tracker, metrics, mdm,
                        [loc[t] EXCEPT !.price = v.price, !.volume = v.volume,
                                       !.timestamp = v.timestamp],
                        hist)

\* (2) cvd_manager.check_and_reset(validated_timestamp)
CheckAndReset(t) ==
    /\ pc[t] = "reset"
    /\ LET r == check_and_reset(cvd_manager, loc[t].timestamp)
       IN  Advance(t, bar_manager, r.cm, poc_tracker,
                   IF r.did_reset THEN [metrics EXCEPT !.cvd_reset = @ + 1] ELSE metrics,
                   mdm, loc[t],
                   [hist EXCEPT !.reset_after_first = @ \/ (r.did_reset /\ hist.n_ok > 0),
                                !.entry[1].did_reset = r.did_reset])

\* (3) bar_manager.process_trade(price, volume, timestamp)
BarStep(t) ==
    /\ pc[t] = "bar"
    /\ LET r == RangeBarManager_process_trade(bar_manager, loc[t].price, loc[t].volume,
                                              loc[t].timestamp)
       IN  IF r.is_new_bar /\ ~RangeBar_post_init(r.bm.current_bar[1])
           THEN Raise(t, "error")
           ELSE Advance(t, r.bm, cvd_manager, poc_tracker, metrics, mdm,
                        [loc[t] EXCEPT !.is_new_bar = r.is_new_bar,
                                       !.completed_bar = r.completed_bar],
                        [hist EXCEPT !.bars = @ \o r.completed_bar])

\* (4) if completed_bar: cvd_manager.complete_candle()
CompleteCandle(t) ==
    /\ pc[t] = "candle"
    /\ Advance(t, bar_manager, complete_candle(cvd_manager), poc_tracker, metrics, mdm,
               [loc[t] EXCEPT !.completed_cvd = cvd_manager.current_cvd_candle],
               [hist EXCEPT !.candles = @ \o cvd_manager.current_cvd_candle,
                            !.seen_done = IF cvd_manager.current_cvd_candle = None THEN @
                                          ELSE @ \o hist.seen])

\* (5) cvd_manager.process_trade(event, is_new_bar)
CvdStep(t) ==
    /\ pc[t] = "delta"
    /\ LET d == calculate_volume_delta(trade[t])
           cm == CVDManager_process_trade(cvd_manager, d.value, loc[t].is_new_bar)
       IN  IF d.raises THEN Raise(t, "invalid")
           ELSE IF ~CVDCandle_post_init(cm.current_cvd_candle[1]) THEN Raise(t, "error")
           ELSE Advance(t, bar_manager, cm, poc_tracker, metrics, mdm,
                        [loc[t] EXCEPT !.volume_delta = d.value], hist)

\* (6) current_bar.volume_profile.update(price, volume, volume_delta)
ProfileStep(t) ==
    /\ pc[t] = "profile"
    /\ LET bm == IF bar_manager.current_bar = None THEN bar_manager
                 ELSE [bar_manager EXCEPT !.current_bar[1].volume_profile =
                           VolumeProfile_update(@, loc[t].price, loc[t].volume,
                                                loc[t].volume_delta)]
       IN  Advance(t, bm, cvd_manager, poc_tracker, metrics, mdm, loc[t], hist)

\* (7) _handle_bar_completion_with_cvd(completed_bar, completed_cvd, timestamp)
Completion(t) ==
    /\ pc[t] = "completion"
    /\ \E now \in Clock :
       LET r == handle_bar_completion_with_cvd(poc_tracker, metrics, mdm,
                                               loc[t].completed_bar[1], loc[t].completed_cvd,
                                               now)
       IN  Advance(t, bar_manager, cvd_manager, r.pt, r.met, r.m, loc[t],
                   [hist EXCEPT !.pocs = @ \o r.appended])

\* (8) lifetime totals, metrics.record_trade(), return; the lock is released.
Finish(t) ==
    /\ pc[t] = "counters"
    /\ mdm' = [mdm EXCEPT !.total_volume_processed = @ + loc[t].volume,
                          !.total_trades_processed = @ + 1]
    /\ metrics' = [metrics EXCEPT !.trades_processed = @ + 1]
    /\ locked' = FALSE
    /\ pc' = [pc EXCEPT ![t] = "done"]
    /\ fate' = [fate EXCEPT ![t] = "ok"]
    /\ trade' = [trade EXCEPT ![t] = NoEvent]
    /\ loc' = [loc EXCEPT ![t] = NoLocals]
    /\ hist' = [hist EXCEPT !.touched[t] = TRUE,
                            !.n_ok = @ + 1,
                            !.sum_signed = @ + IF trade[t].type = "BUY" THEN trade[t].amount
                                               ELSE 0 - trade[t].amount,
                            !.sum_volume = @ + trade[t].amount,
                            !.seen = Observe(@, cvd_manager.cumulative_cvd, loc[t].is_new_bar),
                            !.open_signed = (IF loc[t].is_new_bar THEN 0 ELSE @)
                                            + (IF trade[t].type = "BUY" THEN trade[t].amount
                                               ELSE 0 - trade[t].amount),
                            !.entry = NoEntry,
                            !.twin = process_trade(@, trade[t], TwinClock).e,
                            !.clean = process_trade(@, trade[t], TwinClock).e]
    /\ result' = Some(process_trade_result(loc[t], cvd_manager, mdm'))
    /\ UNCHANGED <<config, validated, value_area, actions,
                   bar_manager, cvd_manager, poc_tracker, waiters, rpc, processed_data, status, volume_profile>>

\* ------------------------------------------------------ get_processed_data
\* Mutant: the snapshot carries the sign of the cumulative CVD as its signal.
get_processed_data_cvd_signal ==
    [signal |-> IF cvd_manager.cumulative_cvd > 0 THEN 1
                ELSE IF cvd_manager.cumulative_cvd < 0 THEN 0 - 1 ELSE 0,
     cvd |-> cvd_manager.cumulative_cvd,
     completed_bars |-> Len(bar_manager.completed_bars),
     total_volume |-> mdm.total_volume_processed,
     total_trades |-> mdm.total_trades_processed,
     metrics |-> metrics,
     poc_confluence |-> get_strongest_levels(poc_tracker, 3)]

get_processed_data ==
    [signal |-> 0,
     cvd |-> cvd_manager.cumulative_cvd,
     completed_bars |-> Len(bar_manager.completed_bars),
     total_volume |-> mdm.total_volume_processed,
     total_trades |-> mdm.total_trades_processed,
     metrics |-> metrics,
     poc_confluence |-> get_strongest_levels(poc_tracker, 3)]

\* update_processed_data calls get_processed_data, which takes the lock.
ReaderStart ==
    /\ rpc = "idle"
    /\ IF CanAcquire
       THEN /\ locked' = TRUE /\ rpc' = "reading" /\ UNCHANGED waiters
       ELSE /\ waiters' = Append(waiters, Reader) /\ rpc' = "waiting" /\ UNCHANGED locked
    /\ UNCHANGED <<result, config, validated, value_area, actions,
                   bar_manager, cvd_manager, poc_tracker, metrics, mdm, pc, trade, loc,
                   fate, processed_data, status, volume_profile, hist>>

ReaderWake ==
    /\ rpc = "waiting"
    /\ ~locked
    /\ waiters # <<>> /\ Head(waiters) = Reader
    /\ locked' = TRUE
    /\ waiters' = Tail(waiters)
    /\ rpc' = "reading"
    /\ UNCHANGED <<result, config, validated, value_area, actions,
                   bar_manager, cvd_manager, poc_tracker, metrics, mdm, pc, trade, loc,
                   fate, processed_data, status, volume_profile, hist>>

ReaderRead ==
    /\ rpc = "reading"
    /\ processed_data' = Some(get_processed_data)
    /\ locked' = FALSE
    /\ rpc' = "idle"
    /\ UNCHANGED <<result, config, validated, value_area, actions,
                   bar_manager, cvd_manager, poc_tracker, metrics, mdm, waiters, pc,
                   trade, loc, fate, status, volume_profile, hist>>

\* get_processed_data raises inside the lock: the lock is released and
\* update_processed_data keeps the last processed_data; only a controller
\* without the attribute gets the fallback dictionary.
ReaderFail ==
    /\ rpc = "reading"
    /\ \/ processed_data' = processed_data
       \/ /\ processed_data = None
          /\ processed_data' = Some([signal |-> 0, cvd |-> 0, completed_bars |-> 0])
    /\ locked' = FALSE
    /\ rpc' = "idle"
    /\ hist' = [hist EXCEPT !.snapshot_failed = TRUE]
    /\ UNCHANGED <<result, config, validated, value_area, actions,
                   bar_manager, cvd_manager, poc_tracker, metrics, mdm, waiters, pc,
                   trade, loc, fate, status, volume_profile>>

\* SimpleTradingControllerBase.determine_executor_actions: no action for a
\* signal of 0 (also when processed_data has no signal); otherwise one
\* executor for the signal's side if none is active and price and amount
\* are usable (can_create).
determine_executor_actions(data, can_create) ==
    LET signal == IF data = None THEN 0 ELSE data[1].signal
    IN  IF signal = 0 THEN <<>>
        ELSE IF can_create THEN <<[side |-> IF signal > 0 THEN "BUY" ELSE "SELL"]>>
        ELSE <<>>

DetermineExecutorActions ==
    /\ \E can_create \in BOOLEAN :
           actions' = Some(determine_executor_actions(processed_data, can_create))
    /\ UNCHANGED <<result, config, validated, value_area,
                   bar_manager, cvd_manager, poc_tracker, metrics, mdm, locked, waiters,
                   pc, trade, loc, fate, rpc, processed_data, status, volume_profile, hist>>

\* ------------------------------------------------------------ read accessors
get_current_bar == bar_manager.current_bar
get_completed_bars == bar_manager.completed_bars
get_cumulative_cvd == cvd_manager.cumulative_cvd
get_completed_cvd_candles == cvd_manager.completed_cvd_candles
get_poc_confluence_levels(top_n) == get_strongest_levels(poc_tracker, top_n)
get_range_bounds == <<bar_manager.current_range_low, bar_manager.current_range_high>>

\* MetricsCollector.get_summary returns a copy of the metrics dict: what the
\* caller does to the result does not reach the collector.
\* Mutant: the dict itself is returned.
get_summary_no_copy(met) == [shared |-> TRUE, value |-> met]

get_summary(met) == [shared |-> FALSE, value |-> met]

\* get_metrics_summary updates the dict it got from get_summary with four
\* more keys; `metrics` is the collector's dict after the call.
get_metrics_summary ==
    LET summary == get_summary(metrics)
        updated == [total_volume_processed |-> mdm.total_volume_processed,
                    total_trades_processed |-> mdm.total_trades_processed,
                    completed_bars |-> Len(get_completed_bars),
                    current_cvd |-> get_cumulative_cvd] @@ summary.value
    IN  [result |-> updated,
         metrics |-> IF summary.shared THEN updated ELSE metrics]

\* _calculate_poc: the first bucket of maximal volume with its volume
calculate_poc(profile) ==
    IF profile = <<>> THEN <<None, 0>> ELSE <<poc(profile), poc_volume(profile)[1]>>

get_status_data ==
    [completed_bars |-> Len(get_completed_bars),
     total_volume |-> mdm.total_volume_processed,
     total_trades |-> mdm.total_trades_processed,
     last_completed_bar_info |-> mdm.last_completed_bar_info,
     errors_count |-> get_summary(metrics).value.errors_count,
     current_bar |->
        IF get_current_bar = None THEN None
        ELSE LET bar == get_current_bar[1]
             IN  Some([range_low |-> get_range_bounds[1],
                       range_high |-> get_range_bounds[2],
                       price |-> bar.close,
                       cvd |-> get_cumulative_cvd,
                       range_used |-> bar.high - bar.low,
                       range_pct |-> <<(bar.high - bar.low) * 100, range_size>>,
                       volume |-> bar.volume,
                       trade_count |-> bar.trade_count]),
     current_poc |->
        IF get_current_bar = None THEN None
        ELSE LET c == calculate_poc(get_current_bar[1].volume_profile)
             IN  IF c[1] # None /\ c[1][1] # 0
                 THEN Some([price |-> c[1][1], volume |-> c[2]])
                 ELSE None,
     poc_confluence |-> get_poc_confluence_levels(2)]

\* What the synchronous accessors return in the current state.
AccessorResults ==
    [current_bar |-> get_current_bar,
     completed_bars |-> get_completed_bars,
     range_bounds |-> get_range_bounds,
     cumulative_cvd |-> get_cumulative_cvd,
     completed_cvd_candles |-> get_completed_cvd_candles,
     poc_confluence_levels |-> get_poc_confluence_levels(3),
     metrics_summary |-> get_metrics_summary.result,
     status_data |-> get_status_data]

\* The strategy calls the synchronous accessors (to_format_status and the
\* getters); they take no lock. The event loop runs them between two tasks'
\* awaits, and the critical section has no await.
ReadAccessors ==
    /\ ~locked
    /\ status' = Some(AccessorResults)
    /\ metrics' = get_metrics_summary.metrics
    /\ UNCHANGED <<result, config, validated, value_area, actions,
                   bar_manager, cvd_manager, poc_tracker, mdm, locked, waiters, pc, trade,
                   loc, fate, rpc, processed_data, volume_profile, hist>>

\* The feed delivers the next trade when the previous one has been processed.
Next ==
    \/ \E ev \in Events : Deliver(ev, 1)
    \/ \E t \in Tasks : Start(t)
    \/ \E t \in Tasks : Validate(t)
    \/ \E t \in Tasks : CheckAndReset(t)
    \/ \E t \in Tasks : BarStep(t)
    \/ \E t \in Tasks : CompleteCandle(t)
    \/ \E t \in Tasks : CvdStep(t)
    \/ \E t \in Tasks : ProfileStep(t)
    \/ \E t \in Tasks : Completion(t)
    \/ \E t \in Tasks : Finish(t)

Spec == Init /\ [][Next]_vars

\* The feed delivers trades while earlier ones are still queued or running,
\* and the strategy refreshes processed_data at any time.
NextConcurrent ==
    \/ \E ev \in ConcurrentEvents : Deliver(ev, MaxInFlight)
    \/ \E t \in Tasks : Start(t)
    \/ \E t \in Tasks : WakeUp(t)
    \/ \E t \in Tasks : Timeout(t)
    \/ \E t \in Tasks : Validate(t)
    \/ \E t \in Tasks : CheckAndReset(t)
    \/ \E t \in Tasks : BarStep(t)
    \/ \E t \in Tasks : CompleteCandle(t)
    \/ \E t \in Tasks : CvdStep(t)
    \/ \E t \in Tasks : ProfileStep(t)
    \/ \E t \in Tasks : Completion(t)
    \/ \E t \in Tasks : Finish(t)
    \/ ReaderStart
    \/ ReaderWake
    \/ ReaderRead
    \/ ReadAccessors

SpecConcurrent == Init /\ [][NextConcurrent]_vars

\* The same under the event loop's scheduling. A ready task is run: a
\* created task starts, the holder of the lock runs its critical section to
\* the end (there is no await inside), and when the lock is free its oldest
\* waiter is woken. Nothing is assumed of the feed, of the strategy's calls
\* or of the timeout, which may fire or not while a task waits.
RunCreated == \E t \in Tasks : Start(t)

WakeWaiter == (\E t \in Tasks : WakeUp(t)) \/ ReaderWake

RunHolder ==
    \/ \E t \in Tasks : Validate(t)
    \/ \E t \in Tasks : CheckAndReset(t)
    \/ \E t \in Tasks : BarStep(t)
    \/ \E t \in Tasks : CompleteCandle(t)
    \/ \E t \in Tasks : CvdStep(t)
    \/ \E t \in Tasks : ProfileStep(t)
    \/ \E t \in Tasks : Completion(t)
    \/ ReaderRead
    \/ ReaderFail

\* WF_vars(Finish(t)), spelled out: Finish(t) is enabled exactly when t is
\* at its last statement, and only Finish(t) takes t away from there, so the
\* step is taken if and only if t is not at that statement for ever.
HolderReturns == \A t \in Tasks : []<>(pc[t] # "counters")

NextFair ==
    \/ \E ev \in ConcurrentEvents : pc[MaxFairTrades] = "none" /\ Deliver(ev, MaxInFlight)
    \/ RunCreated
    \/ WakeWaiter
    \/ \E t \in Tasks : Timeout(t)
    \/ RunHolder
    \/ \E t \in Tasks : Finish(t)
    \/ ReaderStart

SpecFair ==
    /\ Init /\ [][NextFair]_vars
    /\ WF_vars(RunCreated) /\ WF_vars(WakeWaiter) /\ WF_vars(RunHolder) /\ HolderReturns

\* The controller: trades one at a time, the strategy refreshing
\* processed_data (successfully or not) and asking for executor actions at
\* any time.
NextController ==
    \/ \E ev \in ConcurrentEvents : Deliver(ev, 1)
    \/ \E t \in Tasks : Start(t)
    \/ \E t \in Tasks : WakeUp(t)
    \/ \E t \in Tasks : Timeout(t)
    \/ \E t \in Tasks : Validate(t)
    \/ \E t \in Tasks : CheckAndReset(t)
    \/ \E t \in Tasks : BarStep(t)
    \/ \E t \in Tasks : CompleteCandle(t)
    \/ \E t \in Tasks : CvdStep(t)
    \/ \E t \in Tasks : ProfileStep(t)
    \/ \E t \in Tasks : Completion(t)
    \/ \E t \in Tasks : Finish(t)
    \/ ReaderStart
    \/ ReaderWake
    \/ ReaderRead
    \/ ReaderFail
    \/ DetermineExecutorActions

SpecController == Init /\ [][NextController]_vars

\* ------------------------------------- configuration changed while running
\* The collaborator sets an updatable field of the controller's config
\* object. MarketDataManager.__init__ copied the values it uses into the
\* manager and its components; nothing reads the config object afterwards.
UpdateConfig(update) ==
    /\ config' = update @@ config
    /\ config' # config
    /\ UNCHANGED <<result, validated, value_area, actions,
                   bar_manager, cvd_manager, poc_tracker, metrics, mdm, locked, waiters,
                   pc, trade, loc, fate, rpc, processed_data, status, volume_profile, hist>>

NextConfig ==
    \/ \E ev \in {e \in ConcurrentEvents : e.type \in {"BUY", "SELL"}} : Deliver(ev, 1)
    \/ \E t \in Tasks : Start(t)
    \/ \E t \in Tasks : Validate(t)
    \/ \E t \in Tasks : CheckAndReset(t)
    \/ \E t \in Tasks : BarStep(t)
    \/ \E t \in Tasks : CompleteCandle(t)
    \/ \E t \in Tasks : CvdStep(t)
    \/ \E t \in Tasks : ProfileStep(t)
    \/ \E t \in Tasks : Completion(t)
    \/ \E t \in Tasks : Finish(t)
    \/ \E update \in Updatable : UpdateConfig(update)

SpecConfig == Init /\ [][NextConfig]_vars

\* ------------------------------------------------- a POCTracker on its own
\* A tracker constructed with any window size, fed any sequence of POCs.
InitTracker ==
    /\ \E n \in 1 .. MaxLookback :
           poc_tracker = [POCTracker_init EXCEPT !.lookback_bars = n]
    /\ bar_manager = RangeBarManager_init
    /\ cvd_manager = CVDManager_init
    /\ metrics = MetricsCollector_init
    /\ mdm = MarketDataManager_init
    /\ volume_profile = <<>>
    /\ Idle

AddPoc(poc_price, volume, now) ==
    /\ Len(hist.pocs) < MaxAdds
    /\ poc_tracker' = add_poc(poc_tracker, poc_price, volume, now)
    /\ hist' = [hist EXCEPT !.pocs =
                    Append(@, [price |-> POCTracker_normalize_price(poc_price),
                               volume |-> volume])]
    /\ UNCHANGED <<result, config, validated, value_area, actions,
                   bar_manager, cvd_manager, metrics, mdm, locked, waiters, pc, trade,
                   loc, fate, rpc, processed_data, status, volume_profile>>

NextTracker == \E poc_price \in PocPrices, now \in Clock : AddPoc(poc_price, 1, now)

SpecTracker == InitTracker /\ [][NextTracker]_vars

\* ----------------------------------------------- a VolumeProfile on its own
\* An empty profile, updated with any sequence of trades.
UpdateProfile(price, volume, volume_delta) ==
    /\ Len(hist.updates) < MaxUpdates
    /\ volume_profile' = VolumeProfile_update(volume_profile, price, volume, volume_delta)
    /\ hist' = [hist EXCEPT !.updates =
                    Append(@, [price |-> price, volume |-> volume, delta |-> volume_delta])]
    /\ UNCHANGED <<result, config, validated, value_area, actions,
                   bar_manager, cvd_manager, poc_tracker, metrics, mdm, locked, waiters,
                   pc, trade, loc, fate, rpc, processed_data, status>>

NextProfile ==
    \E price \in ProfilePrices, volume \in ProfileVolumes, side \in {1, 0 - 1} :
        UpdateProfile(price, volume, side * volume)

SpecProfile == Init /\ [][NextProfile]_vars

\* -------------------------------------------- a TradeValidator on its own
\* validate_trade called with any raw price, volume and timestamp.
ValidateTrade(price, volume, timestamp) ==
    /\ validated' = Some([price |-> price, volume |-> volume, timestamp |-> timestamp,
                          outcome |-> validate_trade(price, volume, timestamp)])
    /\ UNCHANGED <<result, config, value_area, actions,
                   bar_manager, cvd_manager, poc_tracker, metrics, mdm, locked, waiters,
                   pc, trade, loc, fate, rpc, processed_data, status, volume_profile, hist>>

NextValidator == \E price, volume, timestamp \in RawValues : ValidateTrade(price, volume, timestamp)

SpecValidator == Init /\ [][NextValidator]_vars

\* ------------------------------------- the value area of a VolumeProfile
\* A profile filled by buys, asked for its value area at any time.
GetValueArea(percentage) ==
    /\ value_area' = Some([percentage |-> percentage]
                           @@ get_value_area(volume_profile, percentage))
    /\ UNCHANGED <<result, config, validated, actions,
                   bar_manager, cvd_manager, poc_tracker, metrics, mdm, locked, waiters,
                   pc, trade, loc, fate, rpc, processed_data, status, volume_profile, hist>>

NextValueArea ==
    \/ \E price \in ProfilePrices, volume \in ProfileVolumes :
           UpdateProfile(price, volume, volume)
    \/ \E percentage \in Percentages : GetValueArea(percentage)

SpecValueArea == Init /\ [][NextValueArea]_vars

\* ================================================================ properties
Last(q) == q[Len(q)]
Running == {t \in Tasks : pc[t] \in CriticalSection}
AllBars == bar_manager.completed_bars \o bar_manager.current_bar
AllCandles == cvd_manager.completed_cvd_candles \o cvd_manager.current_cvd_candle

\* C1: when no call is in progress and no daily reset has fired since the
\* first successfully processed trade, the cumulative CVD is the sum of the
\* signed volumes (+amount for a BUY, -amount for a SELL) of the successfully
\* processed trades.
C1_CumulativeIsSignedSum ==
    (~locked /\ ~hist.reset_after_first) => cvd_manager.cumulative_cvd = hist.sum_signed

C1_Witness ==
    /\ ~locked /\ ~hist.reset_after_first
    /\ hist.n_ok = 3
    /\ cvd_manager.cumulative_cvd = 0

\* C2: at the end of the pipeline of a trade at price P that found a bar
\* open with high H and low L: if max(H,P) - min(L,P) >= range_size, the bar
\* that was open is the newest completed bar, unchanged except for its end
\* timestamp, and the open bar is a new bar holding this trade alone;
\* otherwise no bar was completed and the open bar absorbed the trade.
AfterBarStep == {"candle", "delta", "profile", "completion", "counters"}

C3_OhlcConsistent ==
    /\ \A i \in 1 .. Len(AllBars) : RangeBar_post_init(AllBars[i])
    /\ \A i \in 1 .. Len(hist.bars) : RangeBar_post_init(hist.bars[i])
    /\ \A i \in 1 .. Len(AllCandles) : CVDCandle_post_init(AllCandles[i])
    /\ \A i \in 1 .. Len(hist.candles) : CVDCandle_post_init(hist.candles[i])
    /\ \A t \in Tasks : fate[t] # "error"

C3_Witness ==
    /\ bar_manager.completed_bars # <<>>
    /\ Last(bar_manager.completed_bars).low < Last(bar_manager.completed_bars).high
    /\ Last(bar_manager.completed_bars).open > Last(bar_manager.completed_bars).close
    /\ cvd_manager.completed_cvd_candles # <<>>
    /\ Last(cvd_manager.completed_cvd_candles).low < Last(cvd_manager.completed_cvd_candles).high

\* C4: in the series of all CVD candles ever committed, followed by the
\* active candle, the first candle opens at 0 and every later candle opens
\* at the close of the candle before it; the retained history is the tail
\* of that series.
C4_CandleContinuity ==
    LET series == hist.candles \o cvd_manager.current_cvd_candle
        kept == cvd_manager.completed_cvd_candles
    IN  /\ series # <<>> => series[1].open = 0
        /\ \A i \in 2 .. Len(series) : series[i].open = series[i - 1].close
        /\ Len(kept) <= Len(hist.candles)
        /\ kept = SubSeq(hist.candles, Len(hist.candles) - Len(kept) + 1, Len(hist.candles))

C4_Witness ==
    /\ Len(hist.candles) = 2
    /\ cvd_manager.current_cvd_candle # None
    /\ hist.reset_after_first
    /\ hist.candles[2].open # 0
    /\ cvd_manager.current_cvd_candle[1].open # cvd_manager.current_cvd_candle[1].close

\* C5: when no call is in progress, as many CVD candles as bars have been
\* completed, in total and in the retained histories.
C5_CandlesMatchBars ==
    ~locked => /\ Len(hist.candles) = Len(hist.bars)
               /\ Len(cvd_manager.completed_cvd_candles) = Len(bar_manager.completed_bars)

C7_InvalidTradeMutatesNothing ==
    \A t \in Tasks : fate[t] = "invalid" => ~hist.touched[t]

\* C8: a call that timed out applied no pipeline step, its trade is gone
\* (the task is over and holds no event, so it is never applied later), and
\* it is counted: the error count is the number of failed calls.
C8_TimedOutTradeDropped ==
    /\ \A t \in Tasks :
          fate[t] = "timeout" => ~hist.touched[t] /\ pc[t] = "done" /\ trade[t] = NoEvent
    /\ metrics.errors_count =
          Cardinality({t \in Tasks : fate[t] \in {"timeout", "invalid", "error"}})

C8_Witness ==
    /\ fate[1] = "ok" /\ fate[2] = "timeout" /\ fate[3] = "ok"
    /\ mdm.total_trades_processed = 2
    /\ metrics.errors_count = 1

\* C9: at most one task, trade task or get_processed_data, is inside the
\* critical section, and the lock is held exactly while one is.
InsideLock == Cardinality(Running) + (IF rpc = "reading" THEN 1 ELSE 0)

C9_MutualExclusion ==
    /\ InsideLock <= 1
    /\ locked <=> InsideLock = 1

C9_Witness ==
    \E t, u \in Tasks :
        /\ pc[t] = "delta" /\ loc[t].completed_bar # None
        /\ pc[u] = "waiting"
        /\ rpc = "waiting"

\* C10: whenever no call is inside the critical section, which is whenever
\* the event loop can run an accessor, the accessors show whole trades: as
\* many committed candles as completed bars, an open bar whose volume
\* profile holds all of the bar's volume, and one POC observation in the
\* confluence window per retained completed bar.
RECURSIVE ProfileVolume(_)
ProfileVolume(profile) ==
    IF profile = <<>> THEN 0 ELSE Head(profile).volume + ProfileVolume(Tail(profile))

RECURSIVE LevelCount(_)
LevelCount(levels) ==
    IF levels = <<>> THEN 0 ELSE Head(levels).count + LevelCount(Tail(levels))

C10_ReadersSeeWholeTrades ==
    ~locked =>
        /\ Len(get_completed_cvd_candles) = Len(get_completed_bars)
        /\ get_current_bar # None =>
               ProfileVolume(get_current_bar[1].volume_profile) = get_current_bar[1].volume
        /\ LevelCount(get_poc_confluence_levels(max_bars_history)) = Len(get_completed_bars)

\* C14: a call resets exactly when its trade's UTC date is later than the
\* date of the last reset. Right after the reset step the cumulative and the
\* per-bar CVD are 0 and the candles, active and completed, are as the call
\* found them; once the delta step has run the cumulative CVD is the trade's
\* signed volume, and so is the per-bar CVD; every candle committed before
\* the call is still in the series, unaltered.
SignedVolume(ev) == IF ev.type = "BUY" THEN ev.amount ELSE 0 - ev.amount

C14_DailyReset ==
    \A t \in Tasks :
        pc[t] \in {"bar"} \cup AfterBarStep =>
            LET e == hist.entry[1]
            IN  /\ e.did_reset <=>
                       DateOf(loc[t].timestamp) > DateOf(e.cm.last_reset_timestamp)
                /\ e.did_reset =>
                       /\ pc[t] = "bar" =>
                              cvd_manager = [e.cm EXCEPT !.cumulative_cvd = 0,
                                                         !.current_bar_cvd = 0,
                                                         !.last_reset_timestamp = loc[t].timestamp]
                       /\ pc[t] \in {"profile", "completion", "counters"} =>
                              /\ cvd_manager.cumulative_cvd = SignedVolume(trade[t])
                              /\ cvd_manager.current_bar_cvd = SignedVolume(trade[t])
                       /\ Len(hist.candles) >= Len(e.candles)
                       /\ SubSeq(hist.candles, 1, Len(e.candles)) = e.candles
                       /\ loc[t].completed_bar = None =>
                              cvd_manager.completed_cvd_candles = e.cm.completed_cvd_candles

C14_Witness ==
    \E t \in Tasks :
        /\ pc[t] = "counters"
        /\ hist.entry[1].did_reset
        /\ hist.entry[1].cm.cumulative_cvd > 1
        /\ hist.entry[1].cm.completed_cvd_candles # <<>>
        /\ loc[t].completed_bar = None
        /\ cvd_manager.cumulative_cvd = 0 - 1

\* C19: without an open bar there are no bounds; a bar holding the single
\* trade that opened it at p has the bounds [p - range_size/2,
\* p + range_size/2]; a bar that absorbed trades has, with remaining =
\* range_size - (high - low), the bounds [low - remaining/2,
\* high + remaining/2] if remaining > 0 and [low, high] otherwise. With
\* range_size 20, trades at 100 and 108 give [90, 110] and then [94, 114].
C19_BoundsFollowBar ==
    /\ bar_manager.current_bar = None =>
           /\ bar_manager.current_range_low = None
           /\ bar_manager.current_range_high = None
    /\ bar_manager.current_bar # None =>
           LET bar == bar_manager.current_bar[1]
               remaining == range_size - (bar.high - bar.low)
           IN  /\ bar.trade_count = 1 =>
                      /\ bar_manager.current_range_low = Some(bar.open - range_size \div 2)
                      /\ bar_manager.current_range_high = Some(bar.open + range_size \div 2)
               /\ bar.trade_count > 1 =>
                      IF remaining > 0
                      THEN /\ 2 * bar_manager.current_range_low[1] = 2 * bar.low - remaining
                           /\ 2 * bar_manager.current_range_high[1] = 2 * bar.high + remaining
                      ELSE /\ bar_manager.current_range_low = Some(bar.low)
                           /\ bar_manager.current_range_high = Some(bar.high)
    /\ LET first == RangeBarManager_process_trade(RangeBarManager_init, 100 * Scale, 1, 10).bm
           second == RangeBarManager_process_trade(first, 108 * Scale, 1, 10).bm
       IN  /\ first.current_range_low = Some(90 * Scale)
           /\ first.current_range_high = Some(110 * Scale)
           /\ second.current_range_low = Some(94 * Scale)
           /\ second.current_range_high = Some(114 * Scale)

C19_Witness ==
    /\ bar_manager.current_bar # None
    /\ bar_manager.current_bar[1].trade_count = 3
    /\ bar_manager.current_bar[1].high - bar_manager.current_bar[1].low = (3 * Scale) \div 2
    /\ bar_manager.current_range_low = Some((9075 * Scale) \div 100)
    /\ bar_manager.current_range_high = Some((11075 * Scale) \div 100)

\* C20: once the bar step of a call has run, the call has completed at most
\* one bar, whatever the distance between the trade and the open bar: the
\* number of bars ever completed grew by one if the trade broke out of an
\* open bar and by none otherwise, the retained history received exactly
\* that bar, and after a breakout the open bar is the one bar of the
\* trigger trade.
C20_OneBarPerTrade ==
    \A t \in Tasks :
        pc[t] \in AfterBarStep =>
            LET e == hist.entry[1]
                broke == /\ e.bm.current_bar # None
                         /\ Max(e.bm.current_bar[1].high, loc[t].price)
                              - Min(e.bm.current_bar[1].low, loc[t].price) >= range_size
            IN  /\ Len(hist.bars) = Len(e.bars) + (IF broke THEN 1 ELSE 0)
                /\ broke <=> loc[t].completed_bar # None
                /\ bar_manager.completed_bars =
                       IF broke
                       THEN deque_append(e.bm.completed_bars, loc[t].completed_bar[1],
                                         max_bars_history)
                       ELSE e.bm.completed_bars
                /\ broke => /\ bar_manager.current_bar[1].trade_count = 1
                            /\ bar_manager.current_bar[1].open = loc[t].price
                            /\ bar_manager.current_bar[1].timestamp_end = None

C20_Witness ==
    \E t \in Tasks :
        /\ pc[t] = "counters"
        /\ loc[t].completed_bar # None
        /\ loc[t].completed_bar[1].high - loc[t].price >= 4 * range_size
        /\ Len(bar_manager.completed_bars) = 1
        /\ Len(hist.bars) = 1

\* C15: when no call is in progress and no call has failed, as many POC
\* observations have been appended as bars have been completed, and the i-th
\* observation carries the POC bucket and the POC volume of the i-th
\* completed bar.
C15_OnePocPerCompletedBar ==
    (~locked /\ \A t \in Tasks : fate[t] \in {"none", "ok"}) =>
        /\ Len(hist.pocs) = Len(hist.bars)
        /\ \A i \in 1 .. Len(hist.bars) :
               /\ i <= Len(hist.pocs)
               /\ poc(hist.bars[i].volume_profile) = Some(hist.pocs[i].price)
               /\ poc_volume(hist.bars[i].volume_profile) = Some(hist.pocs[i].volume)

\* C16: after any sequence of add_poc calls the window holds the last
\* min(number of adds, capacity) observations in the order they were added,
\* and the confluence map has one entry per bucket of the window, whose count
\* is the number of observations of that bucket in the window: no bucket
\* twice, none with count 0, none that left the window, and the counts sum
\* to the window length.
Occurrences(history, bucket) ==
    Cardinality({i \in 1 .. Len(history) : history[i].price = bucket})

C16_ConfluenceCountsWindow ==
    LET h == poc_tracker.poc_history
        lv == poc_tracker.confluence_levels
        adds == Len(hist.pocs)
    IN  /\ Len(h) = Min(adds, poc_tracker.lookback_bars)
        /\ \A i \in 1 .. Len(h) :
               /\ h[i].price = hist.pocs[adds - Len(h) + i].price
               /\ h[i].volume = hist.pocs[adds - Len(h) + i].volume
        /\ \A k \in 1 .. Len(lv) :
               /\ lv[k].count = Occurrences(h, lv[k].price)
               /\ lv[k].count >= 1
               /\ \A j \in 1 .. Len(lv) : lv[j].price = lv[k].price => j = k
        /\ \A i \in 1 .. Len(h) : \E k \in 1 .. Len(lv) : lv[k].price = h[i].price
        /\ LevelCount(lv) = Len(h)

C16_Witness ==
    /\ poc_tracker.lookback_bars = 2
    /\ Len(hist.pocs) = 4
    /\ hist.pocs[1].price = 102 * Scale /\ hist.pocs[2].price = 100 * Scale
    /\ poc_tracker.confluence_levels = <<[price |-> 101 * Scale, count |-> 2]>>

\* C17: for every n from 0 to MaxTopN, get_strongest_levels(n) returns
\* min(n, number of buckets) entries of the confluence map, no bucket twice,
\* in non-increasing order of count; every bucket left out has a count no
\* greater than that of any bucket returned; and of two returned buckets
\* with equal counts the one that occurs first in the window comes first.
\* POCs 100, 100, 101 give get_strongest_levels(1) = [(100, 2)].
FirstOccurrence(history, bucket) ==
    CHOOSE i \in 1 .. Len(history) :
        /\ history[i].price = bucket
        /\ \A j \in 1 .. i - 1 : history[j].price # bucket

C17_StrongestLevels ==
    /\ \A n \in 0 .. MaxTopN :
           LET r == get_strongest_levels(poc_tracker, n)
               lv == poc_tracker.confluence_levels
               h == poc_tracker.poc_history
           IN  /\ Len(r) = Min(n, Len(lv))
               /\ \A k \in 1 .. Len(r) : \E j \in 1 .. Len(lv) : lv[j] = r[k]
               /\ \A k, j \in 1 .. Len(r) : r[k].price = r[j].price => k = j
               /\ \A k \in 1 .. Len(r) - 1 : r[k].count >= r[k + 1].count
               /\ \A j \in 1 .. Len(lv) :
                      (\A k \in 1 .. Len(r) : r[k].price # lv[j].price) =>
                          \A k \in 1 .. Len(r) : lv[j].count <= r[k].count
               /\ \A k \in 1 .. Len(r) - 1 :
                      r[k].count = r[k + 1].count =>
                          FirstOccurrence(h, r[k].price) < FirstOccurrence(h, r[k + 1].price)
    /\ LET wide == [POCTracker_init EXCEPT !.lookback_bars = 3]
           fed == add_poc(add_poc(add_poc(wide, 100 * Scale, 1, 1), 100 * Scale, 1, 1),
                          101 * Scale, 1, 1)
       IN  get_strongest_levels(fed, 1) = <<[price |-> 100 * Scale, count |-> 2]>>

C17_Witness ==
    /\ Len(poc_tracker.poc_history) = 3
    /\ poc_tracker.poc_history[1].price = 102 * Scale
    /\ poc_tracker.poc_history[2].price = 100 * Scale
    /\ poc_tracker.poc_history[3].price = 101 * Scale
    /\ Len(hist.pocs) = 4
    /\ get_strongest_levels(poc_tracker, 2)
           = <<[price |-> 102 * Scale, count |-> 1], [price |-> 100 * Scale, count |-> 1]>>

\* C18: after any sequence of updates the profile has one bucket for every
\* floor(price / tick_size) * tick_size that occurred, in order of first
\* occurrence, and each bucket holds the summed volume and the summed delta
\* of the updates that fall into it and of no other. poc is the bucket of
\* maximal volume, the earliest-created one if several are maximal, and
\* poc_volume is its volume; both are None for the empty profile. With
\* tick_size 1, updates at 100.4 (volume 2) and 100.7 (volume 3) give
\* poc = 100 and poc_volume = 5.
Floor(price) ==
    CHOOSE b \in 0 .. price :
        /\ b % volume_tick_size = 0
        /\ b <= price /\ price < b + volume_tick_size

RECURSIVE SumInBucket(_, _, _)
SumInBucket(updates, bucket, field) ==
    IF updates = <<>> THEN 0
    ELSE (IF Floor(Head(updates).price) = bucket THEN Head(updates)[field] ELSE 0)
         + SumInBucket(Tail(updates), bucket, field)

FirstUpdateInto(updates, bucket) ==
    CHOOSE i \in 1 .. Len(updates) :
        /\ Floor(updates[i].price) = bucket
        /\ \A h \in 1 .. i - 1 : Floor(updates[h].price) # bucket

C13_AccessorsLeaveStateUnchanged ==
    [][pc' = pc =>
          /\ UNCHANGED <<bar_manager, cvd_manager, poc_tracker, metrics, mdm>>
          /\ AccessorResults' = AccessorResults
          /\ get_processed_data' = get_processed_data
          /\ status' # status => status' = Some(AccessorResults)
          /\ processed_data' # processed_data => processed_data' = Some(get_processed_data)
      ]_vars

C13_Witness ==
    /\ status = Some(AccessorResults)
    /\ processed_data = Some(get_processed_data)
    /\ status[1].completed_bars # <<>>
    /\ status[1].status_data.poc_confluence # <<>>
    /\ status[1].status_data.current_poc # None
    /\ status[1].metrics_summary.total_trades_processed = 2
    /\ processed_data[1].total_trades = 2

\* The engine in the state variables, and an engine without the wall-clock
\* stamps of its POC observations and without its error count.
TheEngine == Engine(bar_manager, cvd_manager, poc_tracker, metrics, mdm)

Unstamped(e) ==
    [e EXCEPT !.pt.poc_history = [i \in 1 .. Len(@) |->
                                      [price |-> @[i].price, volume |-> @[i].volume]],
              !.met.errors_count = 0]

LastDone == CHOOSE t \in Tasks : pc[t] = "done" /\ \A u \in Tasks : pc[u] = "done" => u <= t

\* C11: when no call is in progress the lock is free, and when the call that
\* ended last succeeded, the engine is, apart from the error count, the
\* engine that a fresh engine becomes by processing the successful trades
\* alone.
C11_FailedCallLeavesNoTrace ==
    /\ (\A t \in Tasks : pc[t] \in {"none", "created", "done"}) => ~locked
    /\ (~locked /\ (\E t \in Tasks : pc[t] = "done") /\ fate[LastDone] = "ok") =>
           Unstamped(TheEngine) = Unstamped(hist.clean)

\* C12: whenever no call is in progress, a second engine that processed the
\* same trades in the same order, reading its own clock, has the same
\* completed bars (OHLC, volume, trade count), open bar and bounds, the same
\* completed and active CVD candles and cumulative CVD, and the same
\* strongest levels.
Outputs(e) ==
    [completed_bars |-> [i \in 1 .. Len(e.bm.completed_bars) |->
                            LET bar == e.bm.completed_bars[i]
                            IN  <<bar.open, bar.high, bar.low, bar.close, bar.volume,
                                  bar.trade_count>>],
     current_bar |-> e.bm.current_bar,
     bounds |-> <<e.bm.current_range_low, e.bm.current_range_high>>,
     candles |-> e.cm.completed_cvd_candles \o e.cm.current_cvd_candle,
     cumulative_cvd |-> e.cm.cumulative_cvd,
     strongest_levels |-> [n \in 0 .. MaxTopN |-> get_strongest_levels(e.pt, n)]]

C12_Deterministic == ~locked => Outputs(TheEngine) = Outputs(hist.twin)

C12_Witness ==
    /\ ~locked
    /\ mdm.total_trades_processed = 3
    /\ bar_manager.completed_bars # <<>>
    /\ bar_manager.current_bar[1].trade_count = 2
    /\ poc_tracker.poc_history # <<>>
    /\ hist.twin.pt.poc_history # <<>>
    /\ poc_tracker.poc_history[1].timestamp # hist.twin.pt.poc_history[1].timestamp
    /\ Outputs(TheEngine) = Outputs(hist.twin)

\* C29: the reset step of a call resets if and only if the UTC date of the
\* trade's timestamp is strictly later than the UTC date of the last reset;
\* it then zeroes both CVD values, records the timestamp as the last reset
\* and counts a cvd_reset event; otherwise it leaves the CVD manager and the
\* event count as they are. No step ever moves the last-reset date back, and
\* the last-reset time only changes to a strictly later date, so no date
\* sees two resets.
C29_ResetIffLaterDate ==
    [][/\ DateOf(cvd_manager'.last_reset_timestamp) >= DateOf(cvd_manager.last_reset_timestamp)
       /\ cvd_manager'.last_reset_timestamp # cvd_manager.last_reset_timestamp =>
              DateOf(cvd_manager'.last_reset_timestamp) > DateOf(cvd_manager.last_reset_timestamp)
       /\ \A t \in Tasks :
              (pc[t] = "reset" /\ pc'[t] = "bar") =>
                  IF DateOf(loc[t].timestamp) > DateOf(cvd_manager.last_reset_timestamp)
                  THEN /\ cvd_manager' = [cvd_manager EXCEPT
                                              !.cumulative_cvd = 0,
                                              !.current_bar_cvd = 0,
                                              !.last_reset_timestamp = loc[t].timestamp]
                       /\ metrics'.cvd_reset = metrics.cvd_reset + 1
                       /\ hist'.entry[1].did_reset
                  ELSE /\ cvd_manager' = cvd_manager
                       /\ metrics' = metrics
                       /\ ~hist'.entry[1].did_reset
      ]_vars

C29_Witness ==
    \E t \in Tasks :
        /\ pc[t] = "bar"
        /\ loc[t].timestamp = 10
        /\ cvd_manager.last_reset_timestamp = SecondsPerDay + 10
        /\ cvd_manager.cumulative_cvd # 0
        /\ metrics.cvd_reset = 1
        /\ ~hist.entry[1].did_reset

Range(q) == {q[i] : i \in DOMAIN q}

\* A history after a step: the same entries, or the same entries with one new
\* entry at the end and possibly the oldest one gone.
Retains(old, new) ==
    \/ new = old
    \/ \E k \in {0, 1} :
           /\ Len(new) = Len(old) + 1 - k
           /\ \A i \in 1..(Len(new) - 1) : new[i] = old[i + k]

\* C21: no step of any call, the daily reset included, changes a bar or a
\* CVD candle that is kept in history: every step leaves both histories as
\* they are or appends the entry just completed, and each kept entry is still
\* the value it had when it was completed.
C21_CompletedEntriesFrozen ==
    [][/\ Retains(bar_manager.completed_bars, bar_manager'.completed_bars)
       /\ Retains(cvd_manager.completed_cvd_candles, cvd_manager'.completed_cvd_candles)
       /\ \A b \in Range(bar_manager'.completed_bars) : b \in Range(hist'.bars)
       /\ \A c \in Range(cvd_manager'.completed_cvd_candles) : c \in Range(hist'.candles)
      ]_vars

\* A bar and its candle were completed, then a trade of the next day was
\* absorbed by the following bar after a daily reset.
C21_Witness ==
    /\ \A t \in Tasks : pc[t] \in {"none", "done"}
    /\ hist.n_ok = 3
    /\ metrics.cvd_reset = 1
    /\ bar_manager.current_bar # None
    /\ bar_manager.current_bar[1].trade_count = 2
    /\ Len(bar_manager.completed_bars) = 1
    /\ bar_manager.completed_bars[1].timestamp_end = <<10>>
    /\ bar_manager.completed_bars = hist.bars
    /\ cvd_manager.completed_cvd_candles = hist.candles
    /\ Len(hist.candles) = 1

\* The most recent min(Len(all), n) entries of all, oldest first.
Recent(all, n) == SubSeq(all, Len(all) - Min(Len(all), n) + 1, Len(all))

\* The POC window without the wall-clock time of each observation.
Observations(q) == [i \in 1 .. Len(q) |-> [price |-> q[i].price, volume |-> q[i].volume]]

C30_LifetimeTotals ==
    ~locked =>
        /\ mdm.total_trades_processed = hist.n_ok
        /\ metrics.trades_processed = hist.n_ok
        /\ mdm.total_volume_processed = hist.sum_volume
        /\ metrics.bars_completed = Len(hist.bars)

\* C26: a step that ends a call by timeout or by an exception raises the
\* error count by exactly one and hands the exception to the caller (the
\* call's fate is the exception, and the call is over with the lock no
\* longer held by it), a step that ends a call successfully leaves the error
\* count as it is, and no other step changes it.
C26_ErrorsCountedOnce ==
    [][/\ \A t \in Tasks :
              /\ (fate[t] = "none" /\ fate'[t] \in {"timeout", "invalid", "error"}) =>
                     /\ metrics'.errors_count = metrics.errors_count + 1
                     /\ pc'[t] = "done"
                     /\ (pc[t] \in CriticalSection => ~locked')
              /\ (fate[t] = "none" /\ fate'[t] = "ok") =>
                     metrics'.errors_count = metrics.errors_count
       /\ fate' = fate => metrics'.errors_count = metrics.errors_count
      ]_vars

\* One call timed out, one failed with an exception and one succeeded.
C26_Witness ==
    /\ \E t, u, w \in Tasks : fate[t] = "timeout" /\ fate[u] = "invalid" /\ fate[w] = "ok"
    /\ metrics.errors_count = 2
    /\ metrics.trades_processed = 1

\* C24: the dictionary a successful call returns: is_new_bar holds exactly
\* when the call found no open bar or the trade broke out of the open bar;
\* completed_bar is present exactly on a breakout and is then the bar that
\* was open, stamped with the trade's time; the completion summary is
\* present exactly when completed_bar is; volume_delta is +amount for a buy
\* and -amount for a sell; current_cvd is the cumulative CVD after the call.
C24_ResultOfSuccessfulCall ==
    [][\A t \in Tasks :
          (fate[t] = "none" /\ fate'[t] = "ok") =>
              LET r == result'[1]
                  bar == hist.entry[1].bm.current_bar
                  breakout == /\ bar # None
                              /\ Max(bar[1].high, loc[t].price) - Min(bar[1].low, loc[t].price)
                                     >= range_size
              IN  /\ result' # None
                  /\ r.is_new_bar <=> (bar = None \/ breakout)
                  /\ r.completed_bar # None <=> breakout
                  /\ breakout =>
                         r.completed_bar =
                             Some([bar[1] EXCEPT !.timestamp_end = Some(loc[t].timestamp)])
                  /\ r.completed_bar_info # None <=> r.completed_bar # None
                  /\ r.volume_delta = (IF trade[t].type = "BUY" THEN trade[t].amount
                                       ELSE 0 - trade[t].amount)
                  /\ r.current_cvd = cvd_manager'.cumulative_cvd
      ]_vars

\* Position of bucket i when the buckets are taken by descending volume,
\* buckets of equal volume in insertion order.
VolumeRank(vp, i) ==
    1 + Cardinality({j \in 1 .. Len(vp) :
                        \/ vp[j].volume > vp[i].volume
                        \/ vp[j].volume = vp[i].volume /\ j < i})

RECURSIVE VolumeOfTop(_, _, _)
VolumeOfTop(vp, k, i) ==
    IF i > Len(vp) THEN 0
    ELSE (IF VolumeRank(vp, i) <= k THEN vp[i].volume ELSE 0) + VolumeOfTop(vp, k, i + 1)

\* C28: a get_value_area call on an empty profile returns (None, None); on a
\* non-empty profile it returns the lowest and the highest bucket among the
\* k buckets of largest volume, where k is the least number of them whose
\* volume together reaches percentage times the total volume; the POC
\* bucket is among them, so low <= poc <= high.
C28_ValueArea ==
    [][value_area' # value_area =>
          LET vp == volume_profile
              r == value_area'[1]
              f == r.percentage
          IN  IF vp = <<>> THEN r.low = None /\ r.high = None
              ELSE \E k \in 1 .. Len(vp) :
                      LET top == {i \in 1 .. Len(vp) : VolumeRank(vp, i) <= k}
                      IN  /\ VolumeOfTop(vp, k, 1) * f.den >= VolumeOfTop(vp, Len(vp), 1) * f.num
                          /\ k > 1 => VolumeOfTop(vp, k - 1, 1) * f.den
                                          < VolumeOfTop(vp, Len(vp), 1) * f.num
                          /\ \E i \in top : r.low = Some(vp[i].price)
                          /\ \E i \in top : r.high = Some(vp[i].price)
                          /\ \A i \in top : r.low[1] <= vp[i].price /\ vp[i].price <= r.high[1]
                          /\ \E i \in top : poc(vp) = Some(vp[i].price)
                          /\ r.low[1] <= poc(vp)[1] /\ poc(vp)[1] <= r.high[1]
      ]_vars

\* Buckets 99 (volume 3), 100 (volume 2) and 101 (volume 3): 70% of the
\* volume is reached with 99 and 101, the bucket between them is not taken.
C28_Witness ==
    /\ Len(volume_profile) = 3
    /\ value_area = Some([percentage |-> [num |-> 7, den |-> 10],
                          low |-> Some(99 * Scale), high |-> Some(101 * Scale)])
    /\ poc(volume_profile) = Some(99 * Scale)
    /\ \E i \in 1 .. 3 : volume_profile[i].price = 100 * Scale /\ volume_profile[i].volume = 2

\* C23: validate_trade raises InvalidTradeDataError exactly when the price
\* is not a positive finite number, or the volume is not a non-negative
\* finite number, or the timestamp is not a non-negative finite number; and
\* when it does not raise it returns the three values unchanged.
C23_ValidateTradeRejects ==
    validated # None =>
        LET c == validated[1]
            bad == \/ c.price.kind # "finite" \/ c.price.v <= 0
                   \/ c.volume.kind # "finite" \/ c.volume.v < 0
                   \/ c.timestamp.kind # "finite" \/ c.timestamp.v < 0
        IN  /\ c.outcome.raises <=> bad
            /\ ~c.outcome.raises =>
                   /\ c.outcome.price = c.price
                   /\ c.outcome.volume = c.volume
                   /\ c.outcome.timestamp = c.timestamp

\* C25: whatever was published as processed_data, after any trades and also
\* after a failed refresh, has signal 0, and determine_executor_actions has
\* never returned an action.
C25_NeverASignal ==
    /\ processed_data # None => processed_data[1].signal = 0
    /\ actions # None => actions[1] = <<>>

\* Trades moved the CVD away from 0, a snapshot was published, a later
\* refresh failed and the strategy asked for actions.
C25_Witness ==
    /\ processed_data # None
    /\ processed_data[1].cvd # 0
    /\ cvd_manager.cumulative_cvd # processed_data[1].cvd
    /\ hist.snapshot_failed
    /\ actions = Some(<<>>)

\* C27: the engine follows the configuration as it is when a call runs: the
\* breakout step completes the open bar exactly when the excursion with the
\* new trade reaches the configured range_size, the bar history holds at
\* most the configured max_bars_history bars, and the tick size stays the
\* one given at construction.
C27_ConfigIsLive ==
    [][/\ \A t \in Tasks :
              (pc[t] = "bar" /\ pc'[t] \notin {"bar", "done"}) =>
                  LET bar == bar_manager.current_bar
                  IN  /\ loc'[t].completed_bar # None <=>
                             /\ bar # None
                             /\ Max(bar[1].high, loc[t].price) - Min(bar[1].low, loc[t].price)
                                    >= config.range_size
                      /\ Len(bar_manager'.completed_bars) <= config.max_bars_history
       /\ config'.volume_tick_size = volume_tick_size
      ]_vars

C34_BoundsWidth ==
    bar_manager.current_bar # None =>
        LET bar == bar_manager.current_bar[1]
        IN  /\ bar_manager.current_range_low # None
            /\ bar_manager.current_range_high # None
            /\ bar_manager.current_range_high[1] - bar_manager.current_range_low[1] = range_size
            /\ bar_manager.current_range_low[1] <= bar.low
            /\ bar.low <= bar.high
            /\ bar.high <= bar_manager.current_range_high[1]
            /\ range_size - (bar.high - bar.low) > 0

\* A bar that absorbed a trade 1.5 above its open: the bounds moved with it.
C34_Witness ==
    /\ bar_manager.current_bar # None
    /\ bar_manager.current_bar[1].trade_count = 2
    /\ bar_manager.current_bar[1].high - bar_manager.current_bar[1].low = (3 * Scale) \div 2
    /\ bar_manager.current_range_low[1] < bar_manager.current_bar[1].open - range_size \div 2
           \/ bar_manager.current_range_low[1] > bar_manager.current_bar[1].open - range_size \div 2

RECURSIVE SumOfField(_, _)
SumOfField(q, field) == IF q = <<>> THEN 0 ELSE Head(q)[field] + SumOfField(Tail(q), field)

\* C35: when no call is in progress and no bar has been evicted from the
\* history, the trade counts of the completed bars and the open bar add up
\* to the lifetime trade total, their volumes add up to the lifetime volume
\* total, and every bar holds at least one trade.
C35_TradesCountedOnce ==
    (~locked /\ Len(hist.bars) <= max_bars_history) =>
        /\ SumOfField(AllBars, "trade_count") = mdm.total_trades_processed
        /\ SumOfField(AllBars, "volume") = mdm.total_volume_processed
        /\ \A i \in 1 .. Len(AllBars) : AllBars[i].trade_count >= 1

\* C36: when the call that ended last succeeded, every bar, open or kept in
\* history, has a non-empty volume profile whose bucket volumes add up to the
\* bar's volume; a bar holding a single trade has a profile of one bucket
\* with that trade's volume; and if no daily reset came after the open bar's
\* start, the bucket deltas of the open bar add up to the per-bar CVD.
C36_ProfileAgreesWithBar ==
    (~locked /\ (\E t \in Tasks : pc[t] = "done") /\ fate[LastDone] = "ok") =>
        /\ \A i \in 1 .. Len(AllBars) :
               /\ AllBars[i].volume_profile # <<>>
               /\ SumOfField(AllBars[i].volume_profile, "volume") = AllBars[i].volume
               /\ AllBars[i].trade_count = 1 => Len(AllBars[i].volume_profile) = 1
        /\ bar_manager.current_bar # None
        /\ DateOf(bar_manager.current_bar[1].timestamp_start)
               >= DateOf(cvd_manager.last_reset_timestamp) =>
               SumOfField(bar_manager.current_bar[1].volume_profile, "delta")
                   = cvd_manager.current_bar_cvd

\* C37: while no trade has been processed successfully and no call is in
\* progress there is no open bar; once a trade has been processed
\* successfully there always is one; a manager that has seen its first trade
\* always has an open bar (the branch for a missing current bar is dead);
\* and when the call that ended last succeeded, an active CVD candle exists
\* exactly when an open bar exists.
C37_EmptyThenOpen ==
    /\ (~locked /\ hist.n_ok = 0) => bar_manager.current_bar = None
    /\ hist.n_ok > 0 => bar_manager.current_bar # None
    /\ bar_manager.first_trade_processed => bar_manager.current_bar # None
    /\ (~locked /\ (\E t \in Tasks : pc[t] = "done") /\ fate[LastDone] = "ok") =>
           (cvd_manager.current_cvd_candle # None <=> bar_manager.current_bar # None)

\* C38: every CVD candle, active or completed, has low <= close <= high; its
\* high and low are the highest and the lowest cumulative CVD seen right
\* after each trade of its bar and its close is the value after the bar's
\* last trade.
TracksCvd(candle, s) ==
    /\ candle.high = s.hi
    /\ candle.low = s.lo
    /\ candle.close = s.last

C38_CandleTracksCvd ==
    ~locked =>
        /\ \A c \in Range(AllCandles) : c.low <= c.close /\ c.close <= c.high
        /\ cvd_manager.current_cvd_candle # None =>
               /\ hist.seen # None
               /\ TracksCvd(cvd_manager.current_cvd_candle[1], hist.seen[1])
        /\ Len(hist.seen_done) = Len(hist.candles)
        /\ \A i \in 1..Len(hist.candles) : TracksCvd(hist.candles[i], hist.seen_done[i])

\* C39: when the call that ended last succeeded and no daily reset has fired
\* since the first successfully processed trade, the cumulative CVD minus the
\* per-bar CVD is the open of the active candle, which is the close of the
\* candle committed last (0 if there is none), and the per-bar CVD is the sum
\* of the signed volumes of the trades in the open bar.
C39_BarCvdIsOpenBarSum ==
    (~locked /\ (\E t \in Tasks : pc[t] = "done") /\ fate[LastDone] = "ok"
             /\ ~hist.reset_after_first) =>
        /\ cvd_manager.current_cvd_candle # None
        /\ cvd_manager.cumulative_cvd - cvd_manager.current_bar_cvd
               = cvd_manager.current_cvd_candle[1].open
        /\ cvd_manager.current_cvd_candle[1].open
               = IF cvd_manager.completed_cvd_candles = <<>> THEN 0
                 ELSE Last(cvd_manager.completed_cvd_candles).close
        /\ cvd_manager.current_bar_cvd = hist.open_signed

\* C40: for the positive prices the engine meets, bucket normalization is
\* tight and idempotent, in the profile and in the tracker: once a trade is
\* in the open bar's profile its price p lies in a bucket b of that profile
\* with b <= p < b + tick size, and every bucket of a profile or of the POC
\* history is its own bucket; once a completed bar's POC has been handed to
\* add_poc, the newest entry of the POC history is that POC, unchanged.
Buckets ==
    UNION {{AllBars[i].volume_profile[j].price : j \in 1 .. Len(AllBars[i].volume_profile)}
           : i \in 1 .. Len(AllBars)}
    \cup {poc_tracker.poc_history[i].price : i \in 1 .. Len(poc_tracker.poc_history)}

C32_AppliedInDeliveryOrder ==
    /\ \A t \in Tasks : pc[t] \in CriticalSection =>
           \A u \in Tasks : u < t => pc[u] = "done"
    /\ \A i, j \in 1 .. Len(waiters) :
           (i < j /\ waiters[i] # Reader /\ waiters[j] # Reader) => waiters[i] < waiters[j]

\* The first trade has been processed, the second is changing the engine
\* and the third, delivered meanwhile, queues for the lock.
C32_Witness ==
    /\ fate[1] = "ok"
    /\ pc[2] \in CriticalSection /\ hist.touched[2]
    /\ pc[3] = "waiting" /\ waiters = <<3>>

\* C31: under the event loop's scheduling every call ends: a trade task,
\* once created, ends by returning, by raising or by its timeout, and a
\* get_processed_data call that has begun ends and leaves the lock.
C31_EveryCallEnds ==
    /\ \A t \in Tasks : (pc[t] = "created") ~> (pc[t] = "done")
    /\ (rpc # "idle") ~> (rpc = "idle")

\* A trade task and a get_processed_data call both wait for the lock that an
\* earlier trade task holds.
C31_Witness ==
    /\ pc[1] \in CriticalSection
    /\ pc[2] = "waiting"
    /\ rpc = "waiting"
    /\ Len(waiters) = 2

====
